---- MODULE Spec2Model ----
(***************************************************************************)
(* A model of the credit-card statement extractor: the text utilities      *)
(* (clean_description, extract_amount, parse_date), the movement-section   *)
(* scanner and fixed-column line parser of TextBasedExtractor, and the      *)
(* post-processing of PatagoniaExtractor.extract.                          *)
(*                                                                         *)
(* Text is a sequence of one-character strings.  Amounts are exact decimal *)
(* numbers <<n, k>> standing for n / 10^k (the rounding of binary floats   *)
(* is not modelled); amounts of parsed statement lines always have at most *)
(* two decimals and are carried in hundredths.                             *)
(***************************************************************************)
EXTENDS Integers, Sequences, FiniteSets, TLC

None == "None"

(***************************************************************************)
(* Characters and Python's character classes                               *)
(***************************************************************************)
Chars(s) == [i \in 1..Len(s) |-> SubSeq(s, i, i)]

Digit == {"0", "1", "2", "3", "4", "5", "6", "7", "8", "9"}

UpperLetter == {"A", "B", "C", "D", "E", "F", "G", "H", "I", "J", "K", "L", "M",
                "N", "O", "P", "Q", "R", "S", "T", "U", "V", "W", "X", "Y", "Z"}

LowerLetter == {"a", "b", "c", "d", "e", "f", "g", "h", "i", "j", "k", "l", "m",
                "n", "o", "p", "q", "r", "s", "t", "u", "v", "w", "x", "y", "z"}

\* \s
Space == {" ", "\t", "\n", "\r", "\f"}

\* \w
Word == UpperLetter \cup LowerLetter \cup Digit \cup {"_"}

UpperSeq == Chars("ABCDEFGHIJKLMNOPQRSTUVWXYZ")

LowerSeq == Chars("abcdefghijklmnopqrstuvwxyz")

IndexIn(c, seq) == CHOOSE i \in 1..Len(seq) : seq[i] = c

\* str.upper() and str.lower(), one character at a time
upper(s) == [i \in 1..Len(s) |->
               IF s[i] \in LowerLetter THEN UpperSeq[IndexIn(s[i], LowerSeq)] ELSE s[i]]

lower(s) == [i \in 1..Len(s) |->
               IF s[i] \in UpperLetter THEN LowerSeq[IndexIn(s[i], UpperSeq)] ELSE s[i]]

\* s[a:b] of Python, 0-based and half-open, with both ends clamped
Slice(s, a, b) ==
    LET lo == IF a > Len(s) THEN Len(s) ELSE a
        hi == IF b > Len(s) THEN Len(s) ELSE b
    IN  IF hi <= lo THEN << >> ELSE SubSeq(s, lo + 1, hi)

\* the least and the greatest element of a non-empty set of integers
Min(S) == CHOOSE x \in S : \A y \in S : x <= y

Max(S) == CHOOSE x \in S : \A y \in S : x >= y

lstrip(s) ==
    LET n == CHOOSE k \in 0..Len(s) :
                 /\ k = Len(s) \/ s[k + 1] \notin Space
                 /\ \A j \in 1..k : s[j] \in Space
    IN  SubSeq(s, n + 1, Len(s))

rstrip(s) ==
    LET n == CHOOSE k \in 0..Len(s) :
                 /\ k = Len(s) \/ s[Len(s) - k] \notin Space
                 /\ \A j \in (Len(s) - k + 1)..Len(s) : s[j] \in Space
    IN  SubSeq(s, 1, Len(s) - n)

strip(s) == lstrip(rstrip(s))

\* s.find(needle, p): the first position >= p where needle occurs, 0 when none
FindFrom(needle, s, p) ==
    LET last == Len(s) - Len(needle) + 1
        IsAt(q) == s[q] = needle[1] /\ SubSeq(s, q, q + Len(needle) - 1) = needle
    IN  IF \E q \in p..last : IsAt(q)
        THEN CHOOSE q \in p..last : IsAt(q) /\ \A q2 \in p..(q - 1) : ~IsAt(q2)
        ELSE 0

\* needle in s
Contains(s, needle) == FindFrom(needle, s, 1) # 0

endswith(s, c) == s # << >> /\ s[Len(s)] = c

(***************************************************************************)
(* Python's re: a backtracking matcher.  A pattern is a sequence of items; *)
(* the matcher keeps the items still to be matched on a stack and takes,   *)
(* where re has a choice, the first alternative in re's order (a greedy    *)
(* repetition the longest first, a lazy one the shortest first, the        *)
(* branches of | from left to right) from which the rest still matches.    *)
(***************************************************************************)
Fail == [ok |-> FALSE]

Inf == 100000

In(S) == [k |-> "in", cls |-> S]

NotIn(S) == [k |-> "notin", cls |-> S]

Lit(str) == [k |-> "lit", str |-> Chars(str)]

Alt(xs) == [k |-> "alt", xs |-> xs]

\* the repetition of one character class
Rep(x, lo, hi) ==
    [k |-> "rep", x |-> x, lo |-> lo, hi |-> hi, greedy |-> TRUE, class |-> TRUE]

Lazy(x, lo, hi) ==
    [k |-> "rep", x |-> x, lo |-> lo, hi |-> hi, greedy |-> FALSE, class |-> TRUE]

\* the repetition of a group (?:...), a sequence of items
RepOf(xs, lo, hi) ==
    [k |-> "rep", x |-> xs, lo |-> lo, hi |-> hi, greedy |-> TRUE, class |-> FALSE]

StarOf(xs) == RepOf(xs, 0, Inf)

OptOf(xs) == RepOf(xs, 0, 1)

Plus(x) == Rep(x, 1, Inf)

Star(x) == Rep(x, 0, Inf)

Opt(x) == Rep(x, 0, 1)

Open(n) == [k |-> "open", n |-> n]

Close(n) == [k |-> "close", n |-> n]

AtEnd == [k |-> "end"]

AtStart == [k |-> "start"]

CharIn(c, x) == IF x.k = "in" THEN c \in x.cls ELSE c \notin x.cls

\* how many characters from position i on are in the class, at most hi
RunLen(s, i, x, hi) ==
    LET last == IF Len(s) - i + 1 > hi THEN i + hi - 1 ELSE Len(s)
    IN  (CHOOSE j \in i..(last + 1) :
            /\ j = last + 1 \/ ~CharIn(s[j], x)
            /\ \A q \in i..(j - 1) : CharIn(s[q], x)) - i

\* whether a match of the stack can begin at position i, judged by the
\* character there and the first item alone
CanStart(stack, s, i) ==
    IF stack = << >> \/ i > Len(s) THEN TRUE
    ELSE LET r == stack[1]
         IN  CASE r.k \in {"in", "notin"} -> CharIn(s[i], r)
               [] r.k = "lit" -> s[i] = r.str[1]
               [] r.k = "rep" -> r.lo = 0 \/ ~r.class \/ CharIn(s[i], r.x)
               [] r.k = "start" -> i = 1
               [] OTHER -> TRUE

\* whether the items of the stack match s from position i on
RECURSIVE Matches(_, _, _)
Matches(stack, s, i) ==
    IF stack = << >> THEN TRUE
    ELSE
    LET r    == Head(stack)
        rest == Tail(stack)
    IN  CASE r.k \in {"in", "notin"} ->
               i <= Len(s) /\ CharIn(s[i], r) /\ Matches(rest, s, i + 1)
          [] r.k = "lit" ->
               /\ i + Len(r.str) - 1 <= Len(s)
               /\ SubSeq(s, i, i + Len(r.str) - 1) = r.str
               /\ Matches(rest, s, i + Len(r.str))
          [] r.k = "end" ->
               (i = Len(s) + 1 \/ (i = Len(s) /\ s[i] = "\n")) /\ Matches(rest, s, i)
          [] r.k = "start" -> i = 1 /\ Matches(rest, s, i)
          [] r.k \in {"open", "close"} -> Matches(rest, s, i)
          [] r.k = "alt" ->
               \E a \in 1..Len(r.xs) : Matches(r.xs[a] \o rest, s, i)
          [] r.k = "rep" ->
               IF r.class
               THEN LET most == RunLen(s, i, r.x, r.hi)
                    IN  \E n \in r.lo..most :
                            CanStart(rest, s, i + n) /\ Matches(rest, s, i + n)
               ELSE LET again == [r EXCEPT !.lo = IF r.lo > 0 THEN r.lo - 1 ELSE 0,
                                           !.hi = r.hi - 1]
                    IN  \/ r.lo = 0 /\ Matches(rest, s, i)
                        \/ r.hi > 0 /\ Matches(r.x \o <<again>> \o rest, s, i)

\* the match of the stack from position i on, which exists: where it ends and
\* the groups it captured
RECURSIVE MatchStack(_, _, _, _)
MatchStack(stack, s, i, caps) ==
    IF stack = << >> THEN [ok |-> TRUE, pos |-> i, caps |-> caps]
    ELSE
    LET r    == Head(stack)
        rest == Tail(stack)
    IN  CASE r.k \in {"in", "notin"} -> MatchStack(rest, s, i + 1, caps)
          [] r.k = "lit" -> MatchStack(rest, s, i + Len(r.str), caps)
          [] r.k \in {"end", "start"} -> MatchStack(rest, s, i, caps)
          [] r.k = "open" -> MatchStack(rest, s, i, [caps EXCEPT ![r.n] = <<i, i>>])
          [] r.k = "close" ->
               MatchStack(rest, s, i, [caps EXCEPT ![r.n] = <<caps[r.n][1], i>>])
          [] r.k = "alt" ->
               LET a == Min({b \in 1..Len(r.xs) : Matches(r.xs[b] \o rest, s, i)})
               IN  MatchStack(r.xs[a] \o rest, s, i, caps)
          [] r.k = "rep" ->
               IF r.class
               THEN LET most == RunLen(s, i, r.x, r.hi)
                        fits == {n \in r.lo..most :
                                    CanStart(rest, s, i + n) /\ Matches(rest, s, i + n)}
                    IN  MatchStack(rest, s,
                                   i + (IF r.greedy THEN Max(fits) ELSE Min(fits)), caps)
               ELSE LET again == [r EXCEPT !.lo = IF r.lo > 0 THEN r.lo - 1 ELSE 0,
                                           !.hi = r.hi - 1]
                        more  == r.hi > 0 /\ Matches(r.x \o <<again>> \o rest, s, i)
                        stop  == r.lo = 0 /\ Matches(rest, s, i)
                    IN  IF more /\ (r.greedy \/ ~stop)
                        THEN MatchStack(r.x \o <<again>> \o rest, s, i, caps)
                        ELSE MatchStack(rest, s, i, caps)

NoCaps == [n \in 1..3 |-> <<0, 0>>]

\* the match that MatchStack found from position p on
FoundAt(p, m) == [ok |-> TRUE, from |-> p, pos |-> m.pos, caps |-> m.caps]

MatchAt(pattern, s, p) ==
    IF Matches(pattern, s, p) THEN FoundAt(p, MatchStack(pattern, s, p, NoCaps)) ELSE Fail

\* re.match(pattern, s): a match starting at the first character
re_match(pattern, s) == MatchAt(pattern, s, 1)

\* the leftmost match that starts at position p or later
\* the match at the first of the positions where one starts
FirstHit(pattern, s, hits) ==
    IF hits = {} THEN Fail ELSE MatchAt(pattern, s, Min(hits))

SearchFrom(pattern, s, p) ==
    FirstHit(pattern, s,
             {q \in p..(Len(s) + 1) : CanStart(pattern, s, q) /\ Matches(pattern, s, q)})

\* re.search(pattern, s)
re_search(pattern, s) == SearchFrom(pattern, s, 1)

\* the text of group n of a match
Group(m, s, n) == SubSeq(s, m.caps[n][1], m.caps[n][2] - 1)

\* re.sub(pattern, repl, s) for a pattern that matches no empty string
RECURSIVE SubFrom(_, _, _, _)
RECURSIVE SubAfter(_, _, _, _, _)
SubFrom(pattern, repl, s, p) == SubAfter(pattern, repl, s, p, SearchFrom(pattern, s, p))

\* the rest of the substitution, m being the next match from position p on
SubAfter(pattern, repl, s, p, m) ==
    IF ~m.ok THEN SubSeq(s, p, Len(s))
    ELSE SubSeq(s, p, m.from - 1) \o repl \o SubFrom(pattern, repl, s, m.pos)

\* re.sub of a pattern that is one character class, by a string of length 0 or 1
SubClass(x, repl, s) ==
    IF repl = << >> THEN SelectSeq(s, LAMBDA c : ~CharIn(c, x))
    ELSE [i \in 1..Len(s) |-> IF CharIn(s[i], x) THEN repl[1] ELSE s[i]]

re_sub(pattern, repl, s) ==
    IF Len(pattern) = 1 /\ pattern[1].k \in {"in", "notin"} THEN SubClass(pattern[1], repl, s)
    ELSE SubFrom(pattern, repl, s, 1)

(***************************************************************************)
(* utils.clean_description                                                 *)
(***************************************************************************)
\* \s+Cuota\s+\d+/\d+\s*$
CuotaAtEnd ==
    <<Plus(In(Space)), Lit("Cuota"), Plus(In(Space)), Plus(In(Digit)),
      Lit("/"), Plus(In(Digit)), Star(In(Space)), AtEnd>>

\* [^\w\s\-\.\/*$%]
Special == <<NotIn(Word \cup Space \cup {"-", ".", "/", "*", "$", "%"})>>

\* \s+
Spaces == <<Plus(In(Space))>>

clean_description(text) ==
    IF text = << >> THEN << >>
    ELSE LET t1 == re_sub(Spaces, <<" ">>, strip(text))
             t2 == re_sub(CuotaAtEnd, << >>, t1)
             t3 == re_sub(Special, <<" ">>, t2)
             t4 == re_sub(Spaces, <<" ">>, strip(t3))
         IN  strip(t4)

(***************************************************************************)
(* Python's str.split, str.replace and float                               *)
(***************************************************************************)
\* s.split(sep) for a one-character separator
RECURSIVE split(_, _)
split(s, sep) ==
    LET p == FindFrom(<<sep>>, s, 1)
    IN  IF p = 0 THEN <<s>>
        ELSE <<SubSeq(s, 1, p - 1)>> \o split(SubSeq(s, p + 1, Len(s)), sep)

\* s.replace(old, new): the occurrences of old, leftmost first, not overlapping
RECURSIVE replace(_, _, _)
replace(s, old, new) ==
    LET p == FindFrom(old, s, 1)
    IN  IF p = 0 THEN s
        ELSE SubSeq(s, 1, p - 1) \o new
             \o replace(SubSeq(s, p + Len(old), Len(s)), old, new)

DigitValue(c) == IndexIn(c, Chars("0123456789")) - 1

RECURSIVE IntOf(_)
IntOf(ds) == IF ds = << >> THEN 0
             ELSE 10 * IntOf(SubSeq(ds, 1, Len(ds) - 1)) + DigitValue(ds[Len(ds)])

\* the decimal number n / 10^k, without trailing zeros in n
RECURSIVE Decimal(_, _)
Decimal(n, k) == IF k > 0 /\ n % 10 = 0 THEN Decimal(n \div 10, k - 1) ELSE <<n, k>>

Negate(v) == <<0 - v[1], v[2]>>

\* float(s) for a string of digits and points: None stands for ValueError
float(s) ==
    LET parts == split(s, ".")
    IN  IF Len(parts) > 2 \/ Len(s) = 0 \/ s = <<".">> THEN None
        ELSE IF Len(parts) = 1 THEN Decimal(IntOf(s), 0)
        ELSE Decimal(IntOf(parts[1] \o parts[2]), Len(parts[2]))

(***************************************************************************)
(* utils.extract_amount                                                    *)
(***************************************************************************)
\* [^\d.,]
NotNumeric == <<NotIn(Digit \cup {".", ","})>>

SeparatorsThreeDecimals(cleaned) ==
    IF Contains(cleaned, <<".">>) /\ Contains(cleaned, <<",">>)
    THEN replace(replace(cleaned, <<".">>, << >>), <<",">>, <<".">>)
    ELSE IF Contains(cleaned, <<",">>)
    THEN LET parts == split(cleaned, ",")
         IN  IF Len(parts) = 2 /\ Len(parts[2]) <= 3
             THEN replace(cleaned, <<",">>, <<".">>)
             ELSE replace(cleaned, <<",">>, << >>)
    ELSE IF Contains(cleaned, <<".">>)
    THEN LET parts == split(cleaned, ".")
         IN  IF Len(parts) = 2 /\ Len(parts[2]) <= 2 /\ Len(parts[1]) <= 3
             THEN cleaned
             ELSE replace(cleaned, <<".">>, << >>)
    ELSE cleaned

\* the separators of the cleaned string, resolved to the form that float reads
SeparatorsResolved(cleaned) ==
    IF Contains(cleaned, <<".">>) /\ Contains(cleaned, <<",">>)
    THEN replace(replace(cleaned, <<".">>, << >>), <<",">>, <<".">>)
    ELSE IF Contains(cleaned, <<",">>)
    THEN LET parts == split(cleaned, ",")
         IN  IF Len(parts) = 2 /\ Len(parts[2]) <= 2
             THEN replace(cleaned, <<",">>, <<".">>)
             ELSE replace(cleaned, <<",">>, << >>)
    ELSE IF Contains(cleaned, <<".">>)
    THEN LET parts == split(cleaned, ".")
         IN  IF Len(parts) = 2 /\ Len(parts[2]) <= 2 /\ Len(parts[1]) <= 3
             THEN cleaned
             ELSE replace(cleaned, <<".">>, << >>)
    ELSE cleaned

\* the float of the cleaned string, None for an empty one or a ValueError
AmountOf(cleaned, is_negative, amount) ==
    IF cleaned = << >> \/ amount = None THEN None
    ELSE IF is_negative THEN Negate(amount) ELSE amount

Cleaned(cleaned, is_negative) ==
    AmountOf(cleaned, is_negative,
             IF cleaned = << >> THEN None ELSE float(SeparatorsResolved(cleaned)))

Unsigned(stripped, is_negative) ==
    Cleaned(re_sub(NotNumeric, << >>,
                   IF is_negative THEN strip(Slice(stripped, 0, Len(stripped) - 1))
                   ELSE stripped),
            is_negative)

Stripped(stripped) == Unsigned(stripped, endswith(stripped, "-"))

extract_amount(amount_str) ==
    IF amount_str = << >> THEN None ELSE Stripped(strip(amount_str))

(***************************************************************************)
(* config.MESES_ES, config.DATE_FORMATS and utils.parse_date               *)
(***************************************************************************)
\* the (Spanish, English) pairs in the order in which the dictionary lists them
MESES_ES ==
    << <<"ene", "jan">>, <<"enero", "january">>,
       <<"feb", "feb">>, <<"febrero", "february">>,
       <<"mar", "mar">>, <<"marzo", "march">>,
       <<"abr", "apr">>, <<"abril", "april">>,
       <<"may", "may">>, <<"mayo", "may">>,
       <<"jun", "jun">>, <<"junio", "june">>,
       <<"jul", "jul">>, <<"julio", "july">>,
       <<"ago", "aug">>, <<"agosto", "august">>,
       <<"sep", "sep">>, <<"septiembre", "september">>,
       <<"oct", "oct">>, <<"octubre", "october">>,
       <<"nov", "nov">>, <<"noviembre", "november">>,
       <<"dic", "dec">>, <<"diciembre", "december">> >>

DATE_FORMATS ==
    << Chars("%d/%m/%Y"), Chars("%d-%m-%Y"), Chars("%d %b %Y"), Chars("%d %B %Y"),
       Chars("%Y-%m-%d") >>

\* the replacements of entries lo..hi of MESES_ES, made one after the other in
\* that order (the range is halved to keep the evaluation shallow)
RECURSIVE ReplaceMonths(_, _, _)
ReplaceMonths(text_lower, lo, hi) ==
    IF Len(text_lower) = 0 THEN text_lower
    ELSE IF lo = hi
    THEN replace(text_lower, Chars(MESES_ES[lo][1]), Chars(MESES_ES[lo][2]))
    ELSE LET mid == (lo + hi) \div 2
         IN  ReplaceMonths(ReplaceMonths(text_lower, lo, mid), mid + 1, hi)

normalize_spanish_month(text) == ReplaceMonths(lower(text), 1, Len(MESES_ES))

\* datetime.strptime: the month names of the C locale, lower-cased (the match
\* ignores case and the date string has been lower-cased)
MonthAbbr == <<"jan", "feb", "mar", "apr", "may", "jun", "jul", "aug", "sep", "oct",
               "nov", "dec">>

\* longest first, as strptime orders the alternatives
MonthFull == <<"september", "february", "november", "december", "january", "october",
               "august", "march", "april", "june", "july", "may">>

MonthFullNumber == <<9, 2, 11, 12, 1, 10, 8, 3, 4, 6, 7, 5>>

\* the pattern strptime compiles for one directive; groups: 1 day, 2 month, 3 year
DirectiveRE(c) ==
    CASE c = "d" -> <<Open(1), Alt(<< <<In({"3"}), In({"0", "1"})>>,
                                      <<In({"1", "2"}), In(Digit)>>,
                                      <<In({"0"}), In(Digit \ {"0"})>>,
                                      <<In(Digit \ {"0"})>>,
                                      <<In({" "}), In(Digit \ {"0"})>> >>), Close(1)>>
      [] c = "m" -> <<Open(2), Alt(<< <<In({"1"}), In({"0", "1", "2"})>>,
                                      <<In({"0"}), In(Digit \ {"0"})>>,
                                      <<In(Digit \ {"0"})>> >>), Close(2)>>
      [] c = "Y" -> <<Open(3), Rep(In(Digit), 4, 4), Close(3)>>
      [] c = "b" -> <<Open(2), Alt([i \in 1..12 |-> <<Lit(MonthAbbr[i])>>]), Close(2)>>
      [] c = "B" -> <<Open(2), Alt([i \in 1..12 |-> <<Lit(MonthFull[i])>>]), Close(2)>>

\* the pattern of a whole format: a directive, white space (\s+) or a literal
RECURSIVE FormatRE(_)
FormatRE(fmt) ==
    IF fmt = << >> THEN << >>
    ELSE IF fmt[1] = "%" THEN DirectiveRE(fmt[2]) \o FormatRE(SubSeq(fmt, 3, Len(fmt)))
    ELSE IF fmt[1] \in Space THEN <<Plus(In(Space))>> \o FormatRE(Tail(fmt))
    ELSE <<In({fmt[1]})>> \o FormatRE(Tail(fmt))

MonthNumber(name) ==
    IF \E i \in 1..12 : Chars(MonthAbbr[i]) = name
    THEN CHOOSE i \in 1..12 : Chars(MonthAbbr[i]) = name
    ELSE IF \E i \in 1..12 : Chars(MonthFull[i]) = name
    THEN MonthFullNumber[CHOOSE i \in 1..12 : Chars(MonthFull[i]) = name]
    ELSE IntOf(name)

IsLeap(y) == y % 4 = 0 /\ (y % 100 # 0 \/ y % 400 = 0)

DaysInMonth(y, m) ==
    IF m = 2 THEN (IF IsLeap(y) THEN 29 ELSE 28)
    ELSE IF m \in {4, 6, 9, 11} THEN 30 ELSE 31

\* datetime.strptime(date_str, fmt): None stands for ValueError
\* the date of a match of the whole string, None for a day the month has not
DateOf(day, month, year) ==
    IF day > DaysInMonth(year, month) THEN None ELSE <<year, month, day>>

Parsed(date_str, found) ==
    IF ~found.ok \/ found.pos # Len(date_str) + 1 THEN None
    ELSE DateOf(IntOf(strip(Group(found, date_str, 1))),
                MonthNumber(Group(found, date_str, 2)),
                IntOf(Group(found, date_str, 3)))

strptime(date_str, fmt) == Parsed(date_str, re_match(FormatRE(fmt), date_str))

RECURSIVE TryFormats(_, _)
RECURSIVE FirstParsed(_, _, _)
TryFormats(date_str, formats_to_try) ==
    IF formats_to_try = << >> THEN None
    ELSE FirstParsed(date_str, formats_to_try, strptime(date_str, Head(formats_to_try)))

\* the date of the first format, or the attempt with the formats after it
FirstParsed(date_str, formats_to_try, parsed) ==
    IF parsed # None THEN parsed ELSE TryFormats(date_str, Tail(formats_to_try))

\* formats = None is the empty list here: "formats or DATE_FORMATS" treats both alike
parse_date(date_str, formats) ==
    IF date_str = << >> \/ strip(date_str) = << >> THEN None
    ELSE TryFormats(normalize_spanish_month(strip(date_str)),
                    IF formats = << >> THEN DATE_FORMATS ELSE formats)

(***************************************************************************)
(* Python dictionaries and truth values                                    *)
(***************************************************************************)
\* d.get(key) used as a condition: the key is present and its string not empty
GetTruthy(d, key) == key \in DOMAIN d /\ d[key] # << >>

\* d[key] = value
Put(d, key, value) ==
    [k \in DOMAIN d \cup {key} |-> IF k = key THEN value ELSE d[k]]

\* a string or None used as a condition
Truthy(v) == v # None /\ v # << >>

(***************************************************************************)
(* extractors.base.TextBasedExtractor: the line classifiers                *)
(***************************************************************************)
NumChar == Digit \cup {".", ","}

\* Total\s+Consumos\s+de\s+(.+?)\s+([\d.,]+)
TitularRE ==
    <<Lit("Total"), Plus(In(Space)), Lit("Consumos"), Plus(In(Space)), Lit("de"),
      Plus(In(Space)), Open(1), Lazy(NotIn({"\n"}), 1, Inf), Close(1), Plus(In(Space)),
      Open(2), Plus(In(NumChar)), Close(2)>>

\* nombre_match.group(1).strip(), None without a match
NombreOf(line, nombre_match) ==
    IF nombre_match.ok THEN strip(Group(nombre_match, line, 1)) ELSE None

_extract_titular_info(line) ==
    IF Contains(line, Chars("Total Consumos de")) /\ Contains(line, Chars("Tarjeta"))
    THEN NombreOf(line, re_search(TitularRE, line))
    ELSE None

min_line_length == 103

max_line_length == 124

\* [\d]{1,3}(?:\.[\d]{3})*(?:,[\d]{2})?\-?
monto_pattern ==
    <<Rep(In(Digit), 1, 3), StarOf(<<In({"."}), Rep(In(Digit), 3, 3)>>),
      OptOf(<<In({","}), Rep(In(Digit), 2, 2)>>), Opt(In({"-"}))>>

\* (monto(?:\s+(?:monto|_))?)\s*_?\s*$
HasAmountRE ==
    <<Open(1)>> \o monto_pattern
    \o <<OptOf(<<Plus(In(Space)), Alt(<<monto_pattern, <<In({"_"})>> >>)>>), Close(1),
         Star(In(Space)), Opt(In({"_"})), Star(In(Space)), AtEnd>>

\* the gate without the test of the length
LooksLikeByAmountOnly(line) == re_search(HasAmountRE, line).ok

_looks_like_movement(line) ==
    IF Len(line) < min_line_length \/ Len(line) > max_line_length THEN FALSE
    ELSE re_search(HasAmountRE, line).ok

(***************************************************************************)
(* TextBasedExtractor._parse_by_fixed_positions                            *)
(***************************************************************************)
min_amount_pos == 80

descripcion_start == 31

comprobante_start == 20

fecha_start == 7

fecha_end == 15

min_stripped_length == 10

\* ([\d.,]+\-?)\s+([\d.,_]+\-?)\s*_?\s*$
MontoDobleRE ==
    <<Open(1), Plus(In(NumChar)), Opt(In({"-"})), Close(1), Plus(In(Space)),
      Open(2), Plus(In(NumChar \cup {"_"})), Opt(In({"-"})), Close(2),
      Star(In(Space)), Opt(In({"_"})), Star(In(Space)), AtEnd>>

\* ([.\d,\-]+)\s*$
MontoSimpleRE ==
    <<Open(1), Plus(In(NumChar \cup {"-"})), Close(1), Star(In(Space)), AtEnd>>

\* ^\d{1,3}(?:\.\d{3})*(?:,\d{2})?$
MontoValidRE ==
    <<AtStart, Rep(In(Digit), 1, 3), StarOf(<<In({"."}), Rep(In(Digit), 3, 3)>>),
      OptOf(<<In({","}), Rep(In(Digit), 2, 2)>>), AtEnd>>

\* \s+(?:Cuota\s+)?(\d{2}/\d{2})\s*$
CuotaRE ==
    <<Plus(In(Space)), OptOf(<<Lit("Cuota"), Plus(In(Space))>>),
      Open(1), Rep(In(Digit), 2, 2), In({"/"}), Rep(In(Digit), 2, 2), Close(1),
      Star(In(Space)), AtEnd>>

\* ^(\w+\*?[KX]?)
ComprobanteRE ==
    <<AtStart, Open(1), Plus(In(Word)), Opt(In({"*"})), Opt(In({"K", "X"})), Close(1)>>

\* ^(\d{2}\.\d{2}\.\d{2})$
FechaRE ==
    <<AtStart, Open(1), Rep(In(Digit), 2, 2), In({"."}), Rep(In(Digit), 2, 2), In({"."}),
      Rep(In(Digit), 2, 2), Close(1), AtEnd>>

\* step 1: the amount token and the column where it starts (0-based)
\* the token and the column (0-based) of the double match, else of the simple one
\* the choice of the amount with the single-amount match tried first
MontoOfSimpleFirst(tail, monto_doble_match, monto_simple_match) ==
    IF monto_simple_match.ok
    THEN [ok |-> TRUE, monto_raw |-> Group(monto_simple_match, tail, 1),
          monto_start_pos |-> min_amount_pos + monto_simple_match.from - 1]
    ELSE IF monto_doble_match.ok
    THEN [ok |-> TRUE, monto_raw |-> Group(monto_doble_match, tail, 1),
          monto_start_pos |-> min_amount_pos + monto_doble_match.from - 1]
    ELSE [ok |-> FALSE]

MontoOf(tail, monto_doble_match, monto_simple_match) ==
    IF monto_doble_match.ok
    THEN [ok |-> TRUE, monto_raw |-> Group(monto_doble_match, tail, 1),
          monto_start_pos |-> min_amount_pos + monto_doble_match.from - 1]
    ELSE IF monto_simple_match.ok
    THEN [ok |-> TRUE, monto_raw |-> Group(monto_simple_match, tail, 1),
          monto_start_pos |-> min_amount_pos + monto_simple_match.from - 1]
    ELSE [ok |-> FALSE]

MontoIn(tail) == MontoOf(tail, re_search(MontoDobleRE, tail), re_search(MontoSimpleRE, tail))

MontoFound(line) == MontoIn(Slice(line, min_amount_pos, Len(line)))

\* the sign and shape of the amount token: None when the shape is refused
MontoChecked(monto_clean, is_negative) ==
    IF ~re_match(MontoValidRE, monto_clean).ok THEN None
    ELSE monto_clean \o (IF is_negative THEN <<"-">> ELSE << >>)

MontoSigned(monto_raw, is_negative) ==
    MontoChecked(re_sub(NotNumeric, << >>,
                        IF is_negative THEN Slice(monto_raw, 0, Len(monto_raw) - 1)
                        ELSE monto_raw),
                 is_negative)

MontoStr(monto_raw) == MontoSigned(monto_raw, endswith(monto_raw, "-"))

\* step 5: the date of columns 7..15, None unless it reads DD.MM.YY and is a date
\* day, month and year of DD.MM.YY, as parse_date reads DD/MM/20YY
FechaOf(parts) ==
    parse_date(parts[1] \o <<"/">> \o parts[2] \o <<"/">>
                   \o (IF Len(parts[3]) = 2 THEN Chars("20") \o parts[3] ELSE parts[3]),
               <<Chars("%d/%m/%Y")>>)

FechaMatched(possible_fecha, fecha_match) ==
    IF ~fecha_match.ok THEN None
    ELSE FechaOf(split(Group(fecha_match, possible_fecha, 1), "."))

PossibleFecha(possible_fecha) ==
    FechaMatched(possible_fecha, re_match(FechaRE, possible_fecha))

FechaFinal(line) ==
    IF Len(line) < fecha_end THEN None
    ELSE PossibleFecha(strip(Slice(line, fecha_start, fecha_end)))

EmittedAlways(movement) == TRUE

\* whether the record is kept: a description and an amount
Emitted(movement) == movement.descripcion # << >> /\ movement.importe # None

\* the end of the parser: the record, emitted when it is kept
Emit(movement) == IF Emitted(movement) THEN <<movement>> ELSE << >>

\* step 5 and the record: line is what is left of the line before column 20
WithComprobante(original_line, found, monto_str, cuota, descripcion, comprobante, line) ==
    Emit([fecha       |-> FechaFinal(line),
          comprobante |-> comprobante,
          descripcion |-> clean_description(
                              IF descripcion # << >> THEN descripcion
                              ELSE strip(Slice(original_line, 0, found.monto_start_pos))),
          importe     |-> extract_amount(monto_str),
          cuota       |-> cuota,
          moneda      |-> Chars("ARS")])

ComprobanteOf(comprobante_substring, comprobante_match) ==
    IF comprobante_match.ok THEN Group(comprobante_match, comprobante_substring, 1)
    ELSE << >>

Comprobante(comprobante_substring) ==
    ComprobanteOf(comprobante_substring, re_match(ComprobanteRE, comprobante_substring))

\* step 4: line is what is left of the line before column 31
WithDescripcion(original_line, found, monto_str, cuota, descripcion, line) ==
    WithComprobante(original_line, found, monto_str, cuota, descripcion,
                    IF Len(line) > comprobante_start
                    THEN Comprobante(strip(Slice(line, comprobante_start, Len(line))))
                    ELSE << >>,
                    IF Len(line) > comprobante_start
                    THEN rstrip(Slice(line, 0, comprobante_start))
                    ELSE line)

\* step 3: line is what is left of the line before the cuota
WithCuota(original_line, found, monto_str, cuota, line) ==
    WithDescripcion(original_line, found, monto_str, cuota,
                    IF Len(line) > descripcion_start
                    THEN strip(Slice(line, descripcion_start, Len(line)))
                    ELSE << >>,
                    IF Len(line) > descripcion_start
                    THEN rstrip(Slice(line, 0, descripcion_start))
                    ELSE line)

\* step 2: line is what is left of the line before the amount
CuotaMatched(original_line, found, monto_str, line, cuota_match) ==
    WithCuota(original_line, found, monto_str,
              IF cuota_match.ok THEN Group(cuota_match, line, 1) ELSE << >>,
              IF cuota_match.ok THEN rstrip(Slice(line, 0, cuota_match.from - 1)) ELSE line)

WithMonto(original_line, found, monto_str, line) ==
    IF monto_str = None THEN << >>
    ELSE CuotaMatched(original_line, found, monto_str, line, re_search(CuotaRE, line))

\* step 1: found is the amount token and its column
MontoMatched(original_line, found) ==
    IF ~found.ok THEN << >>
    ELSE WithMonto(original_line, found, MontoStr(found.monto_raw),
                   rstrip(Slice(original_line, 0, found.monto_start_pos)))

\* the parser without its first test
ParseUnguarded(original_line) == MontoMatched(original_line, MontoFound(original_line))

_parse_by_fixed_positions(original_line) ==
    IF original_line = << >> \/ Len(strip(original_line)) < min_stripped_length
    THEN << >>
    ELSE MontoMatched(original_line, MontoFound(original_line))

(***************************************************************************)
(* Statement lines in the fixed-column layout: the date at column 7, the   *)
(* receipt at column 20, the description at column 31, the amount aligned  *)
(* to the right.                                                           *)
(***************************************************************************)
LineWidth == 110

Blanks(n) == [i \in 1..n |-> " "]

PadRight(s, n) == s \o Blanks(n - Len(s))

PadLeft(s, n) == Blanks(n - Len(s)) \o s

MovementLine(fecha, comprobante, descripcion, monto) ==
    Blanks(fecha_start)
    \o PadRight(Chars(fecha), comprobante_start - fecha_start)
    \o PadRight(Chars(comprobante), descripcion_start - comprobante_start)
    \o PadRight(Chars(descripcion), min_amount_pos - descripcion_start)
    \o PadLeft(Chars(monto), LineWidth - min_amount_pos)

\* a line of the given width: the columns of MovementLine, the amount text
\* right-aligned at the end
LineOfWidth(width, fecha, comprobante, descripcion, tail) ==
    Blanks(fecha_start)
    \o PadRight(Chars(fecha), comprobante_start - fecha_start)
    \o PadRight(Chars(comprobante), descripcion_start - comprobante_start)
    \o PadRight(Chars(descripcion), min_amount_pos - descripcion_start)
    \o PadLeft(Chars(tail), width - min_amount_pos)

TitularLine(nombre, monto) ==
    Chars("Tarjeta 1234 Total Consumos de ") \o Chars(nombre) \o Blanks(5) \o Chars(monto)

(***************************************************************************)
(* TextBasedExtractor._extract_movements_from_text: the section scanner    *)
(***************************************************************************)
IsHeader(line) ==
    /\ Contains(line, Chars("FECHA"))
    /\ Contains(line, Chars("COMPROBANTE"))
    /\ Contains(line, Chars("DETALLE"))

IsEndMarker(line) ==
    \/ Contains(line, Chars("DEBITAREMOS DE SU"))
    \/ Contains(line, Chars("Plan V:"))
    \/ Contains(line, Chars("CFTEA"))
    \/ Contains(line, Chars("Condiciones vigentes"))
    \/ Contains(line, Chars("Estimado Cliente"))

pseudo_movement(titular_nombre) ==
    [fecha |-> None, comprobante |-> << >>, descripcion |-> << >>, importe |-> <<0, 0>>,
     cuota |-> << >>, moneda |-> << >>, titular |-> titular_nombre]

\* the branch of the loop body that a line takes
LineKind(in_section, line) ==
    IF strip(line) = << >> THEN "blank"
    ELSE IF ~in_section
    THEN (IF IsHeader(line) THEN "enter" ELSE "outside")
    ELSE IF IsEndMarker(line) THEN "leave"
    ELSE IF Truthy(_extract_titular_info(line)) THEN "titular"
    ELSE IF _looks_like_movement(line) THEN "movement"
    ELSE "skipped"

\* the loop body with an end marker that leaves the flag as it is
ScanLineNeverLeaving(kind, sc, line) ==
    CASE kind = "enter" -> [sc EXCEPT !.in_movement_section = TRUE]
      [] kind = "titular" ->
           [sc EXCEPT !.movements = Append(@, pseudo_movement(_extract_titular_info(line)))]
      [] kind = "movement" ->
           [sc EXCEPT !.movements = @ \o _parse_by_fixed_positions(line)]
      [] OTHER -> sc

\* one iteration of the loop over the lines: sc is the section flag and the
\* movements found so far; the loop body for a line that takes the branch kind
ScanLineAs(kind, sc, line) ==
    CASE kind = "enter" -> [sc EXCEPT !.in_movement_section = TRUE]
      [] kind = "leave" -> [sc EXCEPT !.in_movement_section = FALSE]
      [] kind = "titular" ->
           [sc EXCEPT !.movements = Append(@, pseudo_movement(_extract_titular_info(line)))]
      [] kind = "movement" ->
           [sc EXCEPT !.movements = @ \o _parse_by_fixed_positions(line)]
      [] OTHER -> sc

ScanLine(sc, line) == ScanLineAs(LineKind(sc.in_movement_section, line), sc, line)

ScanStartInside == [in_movement_section |-> TRUE, movements |-> << >>]

\* the state before the first line
ScanStart == [in_movement_section |-> FALSE, movements |-> << >>]

\* the iterations for lines lo..hi, in order (the range is halved to keep the
\* evaluation shallow)
RECURSIVE ScanLines(_, _, _, _)
ScanLines(sc, lines, lo, hi) ==
    IF Len(sc.movements) < 0 \/ lo > hi THEN sc
    ELSE IF lo = hi THEN ScanLine(sc, lines[lo])
    ELSE LET mid == (lo + hi) \div 2
         IN  ScanLines(ScanLines(sc, lines, lo, mid), lines, mid + 1, hi)

_extract_movements_from_text(text) ==
    LET lines == split(text, "\n")
    IN  ScanLines(ScanStart, lines, 1, Len(lines)).movements

(***************************************************************************)
(* BaseExtractor.extract_movements and the reading of the pages.  A PDF is *)
(* its file name and the texts that extract_text gives for its pages.      *)
(***************************************************************************)
\* the texts of the pages that have text, each page's text ended by a line break
RECURSIVE TextOfPagesByLine(_)
TextOfPagesByLine(pages) ==
    IF pages = << >> THEN << >>
    ELSE LET full_text == TextOfPagesByLine(SubSeq(pages, 1, Len(pages) - 1))
             page_text == pages[Len(pages)]
         IN  IF Truthy(page_text) THEN full_text \o page_text \o <<"\n">> ELSE full_text

RECURSIVE _extract_text_from_pages(_)
_extract_text_from_pages(pages) ==
    IF pages = << >> THEN << >>
    ELSE LET full_text == _extract_text_from_pages(SubSeq(pages, 1, Len(pages) - 1))
             page_text == pages[Len(pages)]
         IN  IF Truthy(page_text) THEN full_text \o page_text ELSE full_text

_extract_movements_from_file(pdf) ==
    IF pdf.pages = << >> THEN << >>
    ELSE _extract_movements_from_text(_extract_text_from_pages(pdf.pages))

\* config.BANK_CONFIGS["Patagonia"]["processor"].title()
banco == Chars("Patagonia")

\* the movements with the file name and the bank
Stamp(pdf, movements) ==
    [i \in 1..Len(movements) |->
        Put(Put(movements[i], "archivo_origen", pdf.name), "banco", banco)]

extract_movements(pdf) == Stamp(pdf, _extract_movements_from_file(pdf))

(***************************************************************************)
(* Amounts are decimal numbers <<n, k>> = n / 10^k.  The sums and the      *)
(* comparison of PatagoniaExtractor.extract, on these numbers.             *)
(***************************************************************************)
RECURSIVE Pow10(_)
Pow10(k) == IF k = 0 THEN 1 ELSE 10 * Pow10(k - 1)

Add(a, b) ==
    LET k == Max({a[2], b[2]})
    IN  Decimal(a[1] * Pow10(k - a[2]) + b[1] * Pow10(k - b[2]), k)

Sub(a, b) == Add(a, Negate(b))

abs(a) == IF a[1] < 0 THEN Negate(a) ELSE a

\* a <= b
Le(a, b) == Sub(a, b)[1] <= 0

Zero == <<0, 0>>

One == <<1, 0>>

(***************************************************************************)
(* extractors.patagonia.PatagoniaExtractor: the passes over the records    *)
(***************************************************************************)
saldo_patterns ==
    << <<Lit("SALDO"), Plus(In(Space)), Lit("ANTERIOR")>>,
       <<Lit("SU"), Plus(In(Space)), Lit("PAGO"), Plus(In(Space)), Lit("EN"),
         Plus(In(Space)), Lit("PESOS")>> >>

cargos_patterns ==
    << <<Lit("COMIS."), Plus(In(Space)), Lit("PROD."), Plus(In(Space)), Lit("PAT")>>,
       <<Lit("IVA"), Plus(In(Space)), Lit("$"), Plus(In(Space)), Lit("21")>>,
       <<Lit("INTERESES"), Plus(In(Space)), Lit("FINANCIACION")>>,
       <<Lit("IMP"), Plus(In(Space)), Lit("DE"), Plus(In(Space)), Lit("SELLOS")>> >>

\* the positions found in the descriptions as they are written
IndicesCaseSensitive(patterns, movements) ==
    {i \in 1..Len(movements) :
        \E j \in 1..Len(patterns) : re_search(patterns[j], movements[i].descripcion).ok}

\* the positions of the movements whose upper-cased description one of the
\* patterns finds
indices_a_eliminar(patterns, movements) ==
    {i \in 1..Len(movements) :
        \E j \in 1..Len(patterns) :
            re_search(patterns[j], upper(movements[i].descripcion)).ok}

\* the movements without the ones at the positions
Delete(movements, indices) ==
    LET kept == {i \in 1..Len(movements) : i \notin indices}
        Nth(n) == CHOOSE i \in kept : Cardinality({j \in kept : j < i}) = n - 1
    IN  [n \in 1..Cardinality(kept) |-> movements[Nth(n)]]

\* sum(movements[i]['importe'] for i in indices), in the order of the list
RECURSIVE SumImporte(_, _, _)
SumImporte(movements, indices, n) ==
    IF n = 0 THEN Zero
    ELSE LET rest == SumImporte(movements, indices, n - 1)
         IN  IF n \in indices THEN Add(rest, movements[n].importe) ELSE rest

\* a pass that sums the movements at the positions and leaves them in the list
ExtractedKeepingRecords(movements, found) ==
    [total |-> SumImporte(movements, found, Len(movements)), movements |-> movements]

\* the sum of the movements at the positions, and the movements without them
Extracted(movements, found) ==
    [total |-> SumImporte(movements, found, Len(movements)),
     movements |-> Delete(movements, found)]

_extract_saldo_anterior(movements) ==
    Extracted(movements, indices_a_eliminar(saldo_patterns, movements))

_extract_cargos_bancarios(movements) ==
    Extracted(movements, indices_a_eliminar(cargos_patterns, movements))

IsSaldoActual(mov) == Contains(mov.descripcion, Chars("SALDO ACTUAL"))

IsPagoMinimo(mov) == ~IsSaldoActual(mov) /\ Contains(mov.descripcion, Chars("PAGO MINIMO"))

\* the amount of the last movement that satisfies Is, None when there is none
LastImporte(movements, Is(_)) ==
    LET found == {i \in 1..Len(movements) : Is(movements[i])}
    IN  IF found = {} THEN None
        ELSE movements[CHOOSE i \in found : \A j \in found : j <= i].importe

\* the positions of the stated balance alone
SaldoActualOnly(movements) == {i \in 1..Len(movements) : IsSaldoActual(movements[i])}

saldo_movements(movements) ==
    {i \in 1..Len(movements) : IsSaldoActual(movements[i]) \/ IsPagoMinimo(movements[i])}

\* _assign_titular_to_movements_advanced, first pass: the state of the loop
\* after the movements at the (0-based) indices below i
RECURSIVE FirstPass(_, _)
FirstPass(movements, i) ==
    IF i = 0
    THEN [titulares_data |-> << >>, primer_movimiento |-> 0, movements_to_remove |-> {}]
    ELSE LET before == FirstPass(movements, i - 1)
             ix == i - 1
             mov == movements[ix + 1]
             pseudo == GetTruthy(mov, "titular")
             closes == pseudo /\ before.primer_movimiento < ix
             ranged ==
                 IF closes
                 THEN [before EXCEPT
                         !.titulares_data =
                             Append(@, [nombre |-> mov.titular,
                                        primer_movimiento |-> before.primer_movimiento,
                                        ultimo_movimiento |-> ix - 1]),
                         !.primer_movimiento = ix + 1]
                 ELSE before
         IN  IF ~pseudo THEN ranged
             ELSE [ranged EXCEPT
                     !.movements_to_remove = @ \cup {ix},
                     !.primer_movimiento = IF @ = ix THEN ix + 1 ELSE @]

AssignedNameAfterFirst(titulares_data, n, ix) ==
    LET covering ==
            {t \in 1..Len(titulares_data) :
                /\ Max({0, titulares_data[t].primer_movimiento}) < ix
                /\ ix < Min({n, titulares_data[t].ultimo_movimiento + 1})}
    IN  IF covering = {} THEN << >>
        ELSE titulares_data[CHOOSE t \in covering : \A u \in covering : u <= t].nombre

\* second pass: the name a movement at (0-based) index ix ends with
AssignedName(titulares_data, n, ix) ==
    LET covering ==
            {t \in 1..Len(titulares_data) :
                /\ Max({0, titulares_data[t].primer_movimiento}) <= ix
                /\ ix < Min({n, titulares_data[t].ultimo_movimiento + 1})}
    IN  IF covering = {} THEN << >>
        ELSE titulares_data[CHOOSE t \in covering : \A u \in covering : u <= t].nombre

\* the second and the third pass with one more range, from the last
\* pseudo-record to the end of the list, under the name of the last range
AssignedWithOpenRange(movements, pass) ==
    Delete([i \in 1..Len(movements) |->
               Put(movements[i], "titular",
                   IF /\ pass.titulares_data # << >>
                      /\ pass.titulares_data[Len(pass.titulares_data)].ultimo_movimiento < i - 1
                   THEN pass.titulares_data[Len(pass.titulares_data)].nombre
                   ELSE AssignedName(pass.titulares_data, Len(movements), i - 1))],
           {ix + 1 : ix \in pass.movements_to_remove})

\* the second and the third pass, after the first
Assigned(movements, pass) ==
    Delete([i \in 1..Len(movements) |->
               Put(movements[i], "titular",
                   AssignedName(pass.titulares_data, Len(movements), i - 1))],
           {ix + 1 : ix \in pass.movements_to_remove})

_assign_titular_to_movements_advanced(movements) ==
    Assigned(movements, FirstPass(movements, Len(movements)))

\* sum(mov['importe'] for mov in movements if mov['importe'] > 0)
total_consumos(movements) ==
    SumImporte(movements, {i \in 1..Len(movements) : movements[i].importe[1] > 0},
               Len(movements))

\* sum(mov['importe'] for mov in movements if mov['importe'] < 0)
bonificaciones(movements) ==
    SumImporte(movements, {i \in 1..Len(movements) : movements[i].importe[1] < 0},
               Len(movements))

SaldoSinCargos(saldo_anterior, consumos, bonif, total_cargos) ==
    Add(Add(saldo_anterior, consumos), bonif)

saldo_calculado(saldo_anterior, consumos, bonif, total_cargos) ==
    Add(Add(Add(saldo_anterior, consumos), bonif), total_cargos)

\* the two entries that the validation adds to resumen_info
Validated(diferencia) ==
    [diferencia_validacion |-> diferencia, validacion_ok |-> Le(diferencia, One)]

Validacion(calculado, saldo_actual) ==
    IF saldo_actual # None THEN Validated(abs(Sub(calculado, saldo_actual))) ELSE << >>

\* PatagoniaExtractor.extract up to its return: the movements it returns and
\* resumen_info as <<resumen_info>>, or << >> when it returns before building it
Summary(movements, saldo_anterior, total_cargos, saldo_actual, pago_minimo, consumos, bonif, calculado) ==
    [movements |-> movements,
     resumen_info |->
         <<[saldo_anterior |-> saldo_anterior,
            cargos_bancarios |-> total_cargos,
            saldo_actual |-> saldo_actual,
            pago_minimo |-> pago_minimo,
            total_consumos |-> consumos,
            bonificaciones |-> bonif,
            saldo_calculado |-> calculado] @@ Validacion(calculado, saldo_actual)>>]

Totalled(movements, saldo_anterior, total_cargos, saldo_actual, pago_minimo, consumos, bonif) ==
    Summary(movements, saldo_anterior, total_cargos, saldo_actual, pago_minimo, consumos,
            bonif, saldo_calculado(saldo_anterior, consumos, bonif, total_cargos))

\* lines 99-112: movements is the list with the names assigned
WithTitulares(movements, saldo_anterior, total_cargos, saldo_actual, pago_minimo) ==
    Totalled(movements, saldo_anterior, total_cargos, saldo_actual, pago_minimo,
             total_consumos(movements), bonificaciones(movements))

\* lines 75-95: movements is the list after the two passes
WithoutCargos(movements, saldo_anterior, total_cargos) ==
    WithTitulares(_assign_titular_to_movements_advanced(
                      Delete(movements, saldo_movements(movements))),
                  saldo_anterior, total_cargos,
                  LastImporte(movements, IsSaldoActual),
                  LastImporte(movements, IsPagoMinimo))

\* lines 67-68
CargosExtracted(saldo_anterior, cargos) ==
    WithoutCargos(cargos.movements, saldo_anterior, cargos.total)

\* lines 59-60
SaldoExtracted(saldo) ==
    CargosExtracted(saldo.total, _extract_cargos_bancarios(saldo.movements))

\* lines 42-48
BaseExtracted(base) ==
    IF base = << >> THEN [movements |-> base, resumen_info |-> << >>]
    ELSE SaldoExtracted(_extract_saldo_anterior(base))

extract(pdf) == BaseExtracted(extract_movements(pdf))

(***************************************************************************)
(* The state.  One group of variables for each part of the program that is *)
(* exercised; a specification moves one group and leaves the others idle.  *)
(***************************************************************************)
VARIABLES
    pdf_path,           \* <<the document of the most recent call of extract>>, << >> before it
    returned,           \* the list that call returned
    last_resumen_info,  \* PatagoniaExtractor.last_resumen_info: << >> is None
    resumen_built,      \* whether that call went on to build resumen_info
    sc_lines,           \* _extract_movements_from_text: text.split('\n'), by LinePool number
    sc_pos,             \* the line the loop is at
    sc_state,           \* in_movement_section and movements
    at_movements,       \* _assign_titular_to_movements_advanced: its argument
    at_result,          \* << >>, then <<the list it returns>>
    cd_text,            \* clean_description: the text given to the first call
    cd_results,         \* the result of each call, each applied to the one before
    ea_amount_str,      \* extract_amount: its argument
    ea_result,          \* << >>, then <<the value it returns>>
    pd_date_str,        \* parse_date: its argument
    pd_result,          \* << >>, then <<the value it returns>>
    pf_line,            \* _parse_by_fixed_positions: its argument
    pf_result,          \* << >>, then <<the list it returns>>
    ge_bank_name,       \* get_extractor: <<the argument of the most recent call>>
    ge_results,         \* the outcome of each call so far
    ge_created,         \* the number of extractor instances constructed so far
    tb_files,           \* test_patagonia_extractor: pdf_files, each a document and its fault
    tb_i,               \* the file the loop is at
    tb_processed,       \* the files for which an iteration has run, in the order run
    tb_results,         \* validation_results
    ps_input,           \* extract, lines 59-112: the list that extract_movements returned
    ps_stage,           \* the number of passes made over it
    ps_movements,       \* movements
    ps_info,            \* the totals and the values captured so far
    pg_pages,           \* _extract_movements_from_file: the texts of the pages, by TextPool number
    pg_stage,           \* 0, 1 when full_text is built, 2 when the text is scanned
    pg_text,            \* << >>, then <<full_text>>
    pg_lines,           \* _extract_movements_from_text: text.split('\n')
    pg_result           \* << >>, then <<the movements returned>>

vars ==
    <<pdf_path, returned, last_resumen_info, resumen_built, sc_lines, sc_pos, sc_state,
      at_movements, at_result, cd_text, cd_results, ea_amount_str, ea_result,
      pd_date_str, pd_result, pf_line, pf_result, ge_bank_name, ge_results, ge_created,
      tb_files, tb_i, tb_processed, tb_results,
      ps_input, ps_stage, ps_movements, ps_info,
      pg_pages, pg_stage, pg_text, pg_lines, pg_result>>

instance_vars == <<pdf_path, returned, last_resumen_info, resumen_built>>

scan_vars == <<sc_lines, sc_pos, sc_state>>

titular_vars == <<at_movements, at_result>>

clean_vars == <<cd_text, cd_results>>

amount_vars == <<ea_amount_str, ea_result>>

date_vars == <<pd_date_str, pd_result>>

parse_vars == <<pf_line, pf_result>>

\* the groups of the operations that are called on their own
registry_vars == <<ge_bank_name, ge_results, ge_created>>

batch_vars == <<tb_files, tb_i, tb_processed, tb_results>>

passes_vars == <<ps_input, ps_stage, ps_movements, ps_info>>

pages_vars == <<pg_pages, pg_stage, pg_text, pg_lines, pg_result>>

more_vars == <<parse_vars, registry_vars, batch_vars, passes_vars, pages_vars>>

\* the groups above, for the specifications of the operations that follow
unit_vars == <<instance_vars, scan_vars, titular_vars, clean_vars, amount_vars, date_vars>>

\* BaseExtractor.__init__
InitInstance ==
    /\ pdf_path = << >>
    /\ returned = << >>
    /\ last_resumen_info = << >>
    /\ resumen_built = FALSE

IdleScan == sc_lines = << >> /\ sc_pos = 1 /\ sc_state = ScanStart

IdleTitular == at_movements = << >> /\ at_result = << >>

IdleClean == cd_text = << >> /\ cd_results = << >>

IdleAmount == ea_amount_str = << >> /\ ea_result = << >>

IdleDate == pd_date_str = << >> /\ pd_result = << >>

IdleParse == pf_line = << >> /\ pf_result = << >>

IdleRegistry == ge_bank_name = << >> /\ ge_results = << >> /\ ge_created = 0

IdleBatch == tb_files = << >> /\ tb_i = 1 /\ tb_processed = << >> /\ tb_results = << >>

IdlePasses == ps_input = << >> /\ ps_stage = 0 /\ ps_movements = << >> /\ ps_info = << >>

IdlePages ==
    pg_pages = << >> /\ pg_stage = 0 /\ pg_text = << >> /\ pg_lines = << >> /\ pg_result = << >>

IdleMore == IdleParse /\ IdleRegistry /\ IdleBatch /\ IdlePasses /\ IdlePages

IdleUnits == InitInstance /\ IdleScan /\ IdleTitular /\ IdleClean /\ IdleAmount /\ IdleDate

\* every sequence of at most n elements of S
SeqsUpTo(S, n) == UNION {[1..m -> S] : m \in 0..n}

\* '\n'.join(lines)
RECURSIVE JoinLines(_)
JoinLines(lines) ==
    IF Len(lines) = 0 THEN << >>
    ELSE IF Len(lines) = 1 THEN lines[1]
    ELSE JoinLines(SubSeq(lines, 1, Len(lines) - 1)) \o <<"\n">> \o lines[Len(lines)]

(***************************************************************************)
(* PatagoniaExtractor.extract on one instance.  A document is a sequence   *)
(* of pages of PagePool.  The amounts are binary fractions, so that the    *)
(* float sums of extract are the exact sums computed here.                 *)
(***************************************************************************)
Banner == Chars("VISA PATAGONIA        RESUMEN DE CUENTA")

Footer == Chars("Pagina 1 de 2")

Header == Chars("       FECHA        COMPROBANTE DETALLE DE TRANSACCION") \o Blanks(30)
              \o Chars("PESOS")

EndOfSection == Chars("DEBITAREMOS DE SU CUENTA EL IMPORTE DEL PAGO MINIMO")

\* the opening page: prior balance 1000.00, records +500.00 and -50.00, bank charges 25.00
PageConsumos ==
    JoinLines(<<Banner, Header,
                MovementLine("", "", "SALDO ANTERIOR", "1.000,00"),
                MovementLine("15.01.25", "123456*", "MERCADO PAGO Cuota 03/12", "500,00"),
                MovementLine("16.01.25", "", "BONIFICACION", "50,00-"),
                MovementLine("", "", "IVA $ 21", "25,00"),
                Footer>>)

\* a closing page, read after the header of an earlier page
PageCierre1475 ==
    JoinLines(<<Banner,
                MovementLine("", "", "SALDO ACTUAL", "1.475,00"),
                MovementLine("", "", "PAGO MINIMO", "100,00"),
                EndOfSection,
                MovementLine("20.01.25", "777777", "FUERA DE SECCION", "3,00"),
                Footer>>)

PageCierre1600 ==
    JoinLines(<<Banner, MovementLine("", "", "SALDO ACTUAL", "1.600,00"), Footer>>)

\* an amount whose description normalizes to nothing, one more charge of 1.00
\* under a cardholder, and the stated balance
PageAdicional ==
    JoinLines(<<Banner, Header,
                MovementLine("", "", "#", "9,00"),
                MovementLine("17.01.25", "222222", "SUPERMERCADO", "1,00"),
                TitularLine("ANA PEREZ", "451,00"),
                MovementLine("", "", "SALDO ACTUAL", "1.475,00"),
                Footer>>)

\* a page without text
PageSinTexto == << >>

PagePool == <<PageConsumos, PageCierre1475, PageCierre1600, PageAdicional, PageSinTexto>>

MaxPages == 2

Documents == SeqsUpTo(1..Len(PagePool), MaxPages)

FileName == Chars("resumen.pdf")

\* the PDF of a document: pdf_path.name and the text of each of pdf.pages
PdfOf(d) == [name |-> FileName, pages |-> [i \in 1..Len(d) |-> PagePool[d[i]]]]

\* the documents are numbered: the pages of a document are the digits of its
\* number in base Len(PagePool) + 1
DocBase == Len(PagePool) + 1

RECURSIVE DocNumber(_)
DocNumber(d) == IF d = << >> THEN 0 ELSE d[1] + DocBase * DocNumber(Tail(d))

RECURSIVE DocAt(_)
DocAt(c) == IF c = 0 THEN << >> ELSE <<c % DocBase>> \o DocAt(c \div DocBase)

\* what extract computes for each document, by the number of the document
Runs ==
    [c \in 0..DocNumber([i \in 1..MaxPages |-> Len(PagePool)]) |->
        IF DocAt(c) \in Documents THEN extract(PdfOf(DocAt(c))) ELSE << >>]

\* a return that hands out one list kept across the calls
ReturnAccumulated(run) ==
    /\ returned' = returned \o run.movements
    /\ resumen_built' = (run.resumen_info # << >>)
    /\ last_resumen_info' =
           IF run.resumen_info # << >> THEN run.resumen_info ELSE last_resumen_info
    /\ UNCHANGED <<scan_vars, titular_vars, clean_vars, amount_vars, date_vars, more_vars>>

\* the return of a call extractor.extract(pdf_path) that computed run
Returned(run) ==
    /\ returned' = run.movements
    /\ resumen_built' = (run.resumen_info # << >>)
    /\ last_resumen_info' =
           IF run.resumen_info # << >> THEN run.resumen_info ELSE last_resumen_info

Return(run) ==
    /\ Returned(run)
    /\ UNCHANGED <<scan_vars, titular_vars, clean_vars, amount_vars, date_vars, more_vars>>

\* a call extractor.extract(pdf_path)
Extract(d) ==
    /\ pdf_path' = <<d>>
    /\ Return(Runs[DocNumber(d)])

Init == InitInstance /\ IdleScan /\ IdleTitular /\ IdleClean /\ IdleAmount /\ IdleDate /\ IdleMore

Next == \E d \in Documents : Extract(d)

Spec == Init /\ [][Next]_vars

(***************************************************************************)
(* PatagoniaExtractor.extract: the properties                              *)
(***************************************************************************)
\* the two documents of the reconciliation example
Example1475 == <<1, 2>>

Example1600 == <<1, 3>>

\* an amount of at most two decimals, in cents
Cents(a) == a[1] * Pow10(2 - a[2])

\* the sum, in cents, of the amounts of the records whose sign is sgn
SignedCents(records, sgn) ==
    LET Partial[i \in 0..Len(records)] ==
            IF i = 0 THEN 0
            ELSE Partial[i - 1]
                 + (IF Cents(records[i].importe) * sgn > 0 THEN Cents(records[i].importe)
                    ELSE 0)
    IN  Partial[Len(records)]

\* C2 (as stated): after every call of extract the summary on the instance is
\* the one computed from the document of that call, never one computed from an
\* earlier document; a document without records included.
C2_SummaryOfMostRecentCall ==
    pdf_path # << >> => last_resumen_info = Runs[DocNumber(pdf_path[1])].resumen_info

\* C3: in the summary that a call builds, saldo_calculado is saldo_anterior +
\* total_consumos + bonificaciones + cargos_bancarios, where total_consumos and
\* bonificaciones are the sums of the positive and of the negative amounts of
\* the records returned; diferencia_validacion is |saldo_calculado -
\* saldo_actual| and validacion_ok holds exactly when it is at most 1.0.  The
\* example with stated balance 1475.00 computes 1475.00 and passes; with
\* 1600.00 it fails with a difference of 125.00.
C3_Reconciliation ==
    resumen_built =>
        LET info == last_resumen_info[1]
        IN  /\ Cents(info.total_consumos) = SignedCents(returned, 1)
            /\ Cents(info.bonificaciones) = SignedCents(returned, -1)
            /\ Cents(info.saldo_calculado) =
                   Cents(info.saldo_anterior) + Cents(info.total_consumos)
                   + Cents(info.bonificaciones) + Cents(info.cargos_bancarios)
            /\ info.saldo_actual # None =>
                   LET diff == Cents(info.saldo_calculado) - Cents(info.saldo_actual)
                   IN  /\ Cents(info.diferencia_validacion)
                              = (IF diff < 0 THEN 0 - diff ELSE diff)
                       /\ info.validacion_ok
                              <=> (Cents(info.diferencia_validacion) <= 100)
            /\ pdf_path = <<Example1475>> =>
                   /\ Cents(info.saldo_anterior) = 100000
                   /\ Cents(info.cargos_bancarios) = 2500
                   /\ Cents(info.saldo_calculado) = 147500
                   /\ info.validacion_ok
            /\ pdf_path = <<Example1600>> =>
                   /\ ~info.validacion_ok
                   /\ Cents(info.diferencia_validacion) = 12500

\* C3 witness: the example document has been extracted: 1475.00 computed, passed
C3_Witness ==
    /\ pdf_path = <<Example1475>>
    /\ resumen_built
    /\ last_resumen_info[1].saldo_calculado = <<1475, 0>>
    /\ last_resumen_info[1].validacion_ok
    /\ Len(returned) = 2

EightFields ==
    {"saldo_anterior", "total_consumos", "bonificaciones", "cargos_bancarios",
     "saldo_calculado", "saldo_actual", "diferencia_validacion", "validacion_ok"}

\* C9 (as stated): after every call of extract the summary on the instance
\* holds the eight fields, the difference and the boolean passed flag included,
\* also when the statement has no SALDO ACTUAL record.  Stated here for the
\* calls that build a summary.
C9_EightFieldsAfterEveryCall ==
    resumen_built =>
        /\ EightFields \subseteq DOMAIN last_resumen_info[1]
        /\ last_resumen_info[1].validacion_ok \in BOOLEAN

\* C10: every record of the list that extract returns has a description that
\* is not empty and an amount that is not None; no cardholder pseudo-record
\* (empty description) is left in it.
C10_RecordsHaveDescriptionAndAmount ==
    \A i \in 1..Len(returned) :
        /\ returned[i].descripcion # << >>
        /\ returned[i].importe # None
        /\ returned[i].importe \in Int \X Nat

\* C10 witness: a statement with an amount line whose description normalizes
\* to nothing and a cardholder line has been extracted; one record is returned
C10_Witness ==
    /\ pdf_path = << <<4>> >>
    /\ Len(returned) = 1
    /\ returned[1].descripcion = Chars("SUPERMERCADO")
    /\ returned[1].titular = Chars("ANA PEREZ")

(***************************************************************************)
(* _extract_movements_from_text, one line at a time.  The text is a        *)
(* sequence of at most MaxTextLines lines of LinePool.                     *)
(***************************************************************************)
LinePool ==
    <<Header,
      Chars("FECHA DE CIERRE 15 Ene 25       VENCIMIENTO 05 Feb 25"),
      Blanks(4),
      MovementLine("15.01.25", "123456*", "MERCADO PAGO", "500,00"),
      TitularLine("ANA PEREZ", "500,00"),
      EndOfSection,
      Chars("Su pago en pesos fue acreditado"),
      MovementLine("", "", "#", "9,00"),
      Chars("Plan V: 12 cuotas"),
      Chars("CFTEA 120,00%"),
      Chars("Condiciones vigentes desde el 01.02.25"),
      Chars("Estimado Cliente: su resumen"),
      LineOfWidth(min_line_length - 1, "16.01.25", "111111", "CORTA", "1,00"),
      LineOfWidth(min_line_length, "17.01.25", "222222", "MINIMA", "2,00"),
      LineOfWidth(max_line_length, "18.01.25", "333333", "MAXIMA", "3,00 _"),
      LineOfWidth(max_line_length + 1, "19.01.25", "444444", "LARGA", "4,00"),
      LineOfWidth(LineWidth, "20.01.25", "555555", "SIN IMPORTE", "ver detalle"),
      LineOfWidth(LineWidth, "FECHA", "COMPROBANTE", "DETALLE", "5,00")>>

\* the lines of LinePool of which every text is tried
CommonLines == 8

MaxTextLines == 3

\* a section, text after it, and a second section
ReentryTexts == {<<4, 1, 4, 6, 4, 1, 3, 4, 5>>, <<1, 14, 10, 14, 1, 15>>}

\* every text of the common lines, every text of a header line and up to
\* MaxTextLines - 1 lines of LinePool, and the texts with two sections
Texts ==
    SeqsUpTo(1..CommonLines, MaxTextLines)
    \cup {<<1>> \o t : t \in SeqsUpTo(1..Len(LinePool), MaxTextLines - 1)}
    \cup ReentryTexts

\* for each line l of LinePool, outside (entry 2l - 1) and inside (entry 2l) the
\* section: the branch it takes and the state it gives to a scan that has no
\* movements yet
Scanned ==
    [c \in 1..(2 * Len(LinePool)) |->
        [kind |-> LineKind(c % 2 = 0, LinePool[(c + 1) \div 2]),
         sc |-> ScanLine([ScanStart EXCEPT !.in_movement_section = (c % 2 = 0)],
                         LinePool[(c + 1) \div 2])]]

InitScan ==
    /\ sc_lines \in Texts
    /\ sc_pos = 1
    /\ sc_state = ScanStart
    /\ InitInstance /\ IdleTitular /\ IdleClean /\ IdleAmount /\ IdleDate /\ IdleMore

\* the iteration that step describes, when it takes the given branch
Advance(kind, step) ==
    /\ step.kind = kind
    /\ sc_state' = [in_movement_section |-> step.sc.in_movement_section,
                    movements |-> sc_state.movements \o step.sc.movements]
    /\ sc_pos' = sc_pos + 1
    /\ UNCHANGED <<sc_lines, instance_vars, titular_vars, clean_vars, amount_vars, date_vars, more_vars>>

\* what Scanned holds for the line at sc_pos and the section flag
Current ==
    Scanned[2 * sc_lines[sc_pos] - (IF sc_state.in_movement_section THEN 0 ELSE 1)]

\* line 184: a blank line
SkipBlank ==
    /\ sc_pos <= Len(sc_lines)
    /\ Advance("blank", Current)

\* lines 188-190: the header line, outside the section
EnterSection ==
    /\ sc_pos <= Len(sc_lines)
    /\ Advance("enter", Current)

\* lines 188-192: another line, outside the section
SkipOutside ==
    /\ sc_pos <= Len(sc_lines)
    /\ Advance("outside", Current)

\* lines 195-203: a line with an end marker
LeaveSection ==
    /\ sc_pos <= Len(sc_lines)
    /\ Advance("leave", Current)

\* lines 206-222: a cardholder line
AppendTitular ==
    /\ sc_pos <= Len(sc_lines)
    /\ Advance("titular", Current)

\* lines 224-230: a line that looks like a movement
ParseMovement ==
    /\ sc_pos <= Len(sc_lines)
    /\ Advance("movement", Current)

\* line 224: any other line of the section
SkipLine ==
    /\ sc_pos <= Len(sc_lines)
    /\ Advance("skipped", Current)

NextScan ==
    \/ SkipBlank
    \/ EnterSection
    \/ SkipOutside
    \/ LeaveSection
    \/ AppendTitular
    \/ ParseMovement
    \/ SkipLine

SpecScan == InitScan /\ [][NextScan]_vars

\* the lines of LinePool that hold the three header tokens
HeaderLines ==
    {l \in 1..Len(LinePool) :
        /\ FindFrom(Chars("FECHA"), LinePool[l], 1) > 0
        /\ FindFrom(Chars("COMPROBANTE"), LinePool[l], 1) > 0
        /\ FindFrom(Chars("DETALLE"), LinePool[l], 1) > 0}

\* C5: when the loop has read every line of a text in which no line holds the
\* three tokens FECHA, COMPROBANTE and DETALLE, it has no record: no
\* transaction record and no cardholder pseudo-record.
C5_NoHeaderNoRecords ==
    (sc_pos = Len(sc_lines) + 1 /\ \A i \in 1..Len(sc_lines) : sc_lines[i] \notin HeaderLines)
        => sc_state.movements = << >>

\* C5 witness: a text of a line with one header token, a movement line and a
\* cardholder line has been read to its end, and there is no record
C5_Witness ==
    /\ sc_lines = <<2, 4, 5>>
    /\ sc_pos = 4
    /\ sc_state.movements = << >>

(***************************************************************************)
(* _assign_titular_to_movements_advanced on lists of at most MaxMovements  *)
(* records, and on the list of the example.                                *)
(***************************************************************************)
\* a record as extract_movements returns it
Stamped(movement) == Put(Put(movement, "archivo_origen", FileName), "banco", banco)

Compra(descripcion) ==
    Stamped([fecha |-> None, comprobante |-> << >>, descripcion |-> Chars(descripcion),
             importe |-> <<1, 0>>, cuota |-> << >>, moneda |-> Chars("ARS")])

Ana == Stamped(pseudo_movement(Chars("Ana")))

Luis == Stamped(pseudo_movement(Chars("Luis")))

RecordPool == {Compra("COMPRA A"), Compra("COMPRA B"), Ana, Luis}

MaxMovements == 5

\* pseudo-record Ana at index 3 followed by 2 records, Luis at index 6 followed by 3
AnaLuisExample ==
    <<Compra("C0"), Compra("C1"), Compra("C2"), Ana, Compra("C4"), Compra("C5"), Luis,
      Compra("C7"), Compra("C8"), Compra("C9")>>

InitTitular ==
    /\ at_movements \in SeqsUpTo(RecordPool, MaxMovements) \cup {AnaLuisExample}
    /\ at_result = << >>
    /\ InitInstance /\ IdleScan /\ IdleClean /\ IdleAmount /\ IdleDate /\ IdleMore

AssignTitular ==
    /\ at_result = << >>
    /\ at_result' = <<_assign_titular_to_movements_advanced(at_movements)>>
    /\ UNCHANGED <<at_movements, instance_vars, scan_vars, clean_vars, amount_vars, date_vars, more_vars>>

NextTitular == AssignTitular

SpecTitular == InitTitular /\ [][NextTitular]_vars

IsPseudo(mov) == "titular" \in DOMAIN mov /\ mov.titular # << >>

\* the positions of the transaction records of a list, in order
Transactions(movs) ==
    LET real == {i \in 1..Len(movs) : ~IsPseudo(movs[i])}
    IN  [n \in 1..Cardinality(real) |->
            CHOOSE i \in real : Cardinality({j \in real : j < i}) = n - 1]

\* the name of the first pseudo-record after position i, "" when there is none
NextName(movs, i) ==
    LET later == {j \in (i + 1)..Len(movs) : IsPseudo(movs[j])}
    IN  IF later = {} THEN << >> ELSE movs[Min(later)].titular

\* the name of the last pseudo-record before position i, "" when there is none
PreviousName(movs, i) ==
    LET earlier == {j \in 1..(i - 1) : IsPseudo(movs[j])}
    IN  IF earlier = {} THEN << >> ELSE movs[Max(earlier)].titular

\* C1 (amended): the list returned holds the transaction records of the
\* argument in their order and no pseudo-record; each carries the name of the
\* first pseudo-record that comes after it, and the empty name when no
\* pseudo-record comes after it.
C1_RecordsCarryTheNameThatFollows ==
    at_result # << >> =>
        LET tx == Transactions(at_movements)
        IN  /\ Len(at_result[1]) = Len(tx)
            /\ \A n \in 1..Len(tx) :
                   at_result[1][n]
                       = Put(at_movements[tx[n]], "titular", NextName(at_movements, tx[n]))

\* C1 (as stated): every transaction record that follows a pseudo-record, up
\* to the next pseudo-record or the end, carries the name of that
\* pseudo-record, and no pseudo-record is left.
C1_RecordsCarryTheNameBefore ==
    at_result # << >> =>
        LET tx == Transactions(at_movements)
        IN  /\ Len(at_result[1]) = Len(tx)
            /\ \A n \in 1..Len(tx) :
                   PreviousName(at_movements, tx[n]) # << >> =>
                       at_result[1][n].titular = PreviousName(at_movements, tx[n])

\* C1 witness: the list of the example has been processed: the three records
\* before Ana carry Ana, the two before Luis carry Luis, the last three no name
C1_Witness ==
    /\ at_movements = AnaLuisExample
    /\ at_result # << >>
    /\ [n \in 1..Len(at_result[1]) |-> at_result[1][n].titular]
           = <<Chars("Ana"), Chars("Ana"), Chars("Ana"), Chars("Luis"), Chars("Luis"),
               << >>, << >>, << >>>>

\* the ranges the first pass has built when the loop over the list ends
Ranges(movs) == FirstPass(movs, Len(movs)).titulares_data

\* the (0-based) indices of a range
RangeOf(range) == range.primer_movimiento..range.ultimo_movimiento

\* C21: every attribution range is a non-empty run of transaction records
\* that ends at the index just before a pseudo-record and has the name of
\* that pseudo-record; the ranges do not overlap; a transaction record in a
\* range is returned with the name of the range, which is the name of the
\* nearest pseudo-record after it, and a transaction record in no range
\* (after the last pseudo-record, or in a list without one) is returned
\* with the empty name.
C21_RangesEndJustBeforeAPseudoRecord ==
    at_result # << >> =>
        LET ranges == Ranges(at_movements)
            tx == Transactions(at_movements)
            pseudos == {i \in 1..Len(at_movements) : IsPseudo(at_movements[i])}
        IN  /\ \A t \in 1..Len(ranges) :
                   /\ RangeOf(ranges[t]) # {}
                   /\ \A ix \in RangeOf(ranges[t]) : ix + 1 \notin pseudos
                   /\ ranges[t].ultimo_movimiento + 2 \in pseudos
                   /\ ranges[t].nombre = at_movements[ranges[t].ultimo_movimiento + 2].titular
                   /\ \A u \in 1..Len(ranges) :
                          u # t => RangeOf(ranges[t]) \cap RangeOf(ranges[u]) = {}
            /\ Len(at_result[1]) = Len(tx)
            /\ \A n \in 1..Len(tx) :
                   LET covering == {t \in 1..Len(ranges) : tx[n] - 1 \in RangeOf(ranges[t])}
                       after == {j \in pseudos : j > tx[n]}
                   IN  /\ (after = {}) = (covering = {})
                       /\ after = {} => at_result[1][n].titular = << >>
                       /\ \A t \in covering :
                              /\ ranges[t].ultimo_movimiento + 2 = Min(after)
                              /\ at_result[1][n].titular = ranges[t].nombre

\* C21 witness: a list with two pseudo-records in a row has been processed:
\* the record before them carries the name of the first, the two records
\* after the last pseudo-record carry no name
C21_Witness ==
    /\ at_movements = <<Compra("COMPRA A"), Ana, Luis, Compra("COMPRA B"), Compra("COMPRA A")>>
    /\ at_result # << >>
    /\ Len(Ranges(at_movements)) = 1
    /\ [n \in 1..Len(at_result[1]) |-> at_result[1][n].titular]
           = <<Chars("Ana"), << >>, << >>>>

(***************************************************************************)
(* clean_description applied again and again to a description made of at   *)
(* most MaxWords words of WordPool.                                        *)
(***************************************************************************)
WordPool == <<Chars("A"), Chars("Cuota 1/2"), Chars("Cuota 3/4"), Chars("#"), Chars("PAGO*")>>

MaxWords == 3

MaxApplications == 2

\* ' '.join(words)
RECURSIVE JoinWords(_)
JoinWords(words) ==
    IF words = << >> THEN << >>
    ELSE IF Len(words) = 1 THEN WordPool[words[1]]
    ELSE WordPool[words[1]] \o <<" ">> \o JoinWords(Tail(words))

Descriptions == {JoinWords(words) : words \in SeqsUpTo(1..Len(WordPool), MaxWords)}

InitClean ==
    /\ cd_text \in Descriptions
    /\ cd_results = << >>
    /\ InitInstance /\ IdleScan /\ IdleTitular /\ IdleAmount /\ IdleDate /\ IdleMore

\* clean_description of the text, then of the result of the call before
Clean ==
    /\ Len(cd_results) < MaxApplications
    /\ cd_results' = Append(cd_results,
                            clean_description(IF cd_results = << >> THEN cd_text
                                              ELSE cd_results[Len(cd_results)]))
    /\ UNCHANGED <<cd_text, instance_vars, scan_vars, titular_vars, amount_vars, date_vars, more_vars>>

NextClean == Clean

SpecClean == InitClean /\ [][NextClean]_vars

\* C4 (as stated): clean_description is idempotent: applied to its own
\* result it gives that result again.
C4_Idempotent ==
    Len(cd_results) >= 2 => cd_results[2] = cd_results[1]

(***************************************************************************)
(* extract_amount on the strings of at most MaxAmountLen characters of     *)
(* AmountChars, and on the amounts of the examples.                        *)
(***************************************************************************)
AmountChars == {"5", ".", ",", "-"}

MaxAmountLen == 5

ExampleAmounts == {Chars("1.234,56"), Chars("12,5"), Chars("12.500")}

InitAmount ==
    /\ ea_amount_str \in SeqsUpTo(AmountChars, MaxAmountLen) \cup ExampleAmounts
    /\ ea_result = << >>
    /\ InitInstance /\ IdleScan /\ IdleTitular /\ IdleClean /\ IdleDate /\ IdleMore

ExtractAmount ==
    /\ ea_result = << >>
    /\ ea_result' = <<extract_amount(ea_amount_str)>>
    /\ UNCHANGED <<ea_amount_str, instance_vars, scan_vars, titular_vars, clean_vars, date_vars, more_vars>>

NextAmount == ExtractAmount

SpecAmount == InitAmount /\ [][NextAmount]_vars

\* the positions of a character in a string
Positions(s, c) == {i \in 1..Len(s) : s[i] = c}

\* the position of the decimal separator of a digit/separator string by the
\* stated rule: 0 when every separator is a thousands separator, -1 when the
\* rule gives more than one decimal separator
DecimalAt(s) ==
    LET commas == Positions(s, ",")
        dots   == Positions(s, ".")
    IN  IF commas # {} /\ dots # {}
        THEN (IF Cardinality(commas) = 1 THEN Min(commas) ELSE -1)
        ELSE IF commas # {}
        THEN (IF Cardinality(commas) = 1 /\ Len(s) - Min(commas) <= 2 THEN Min(commas) ELSE 0)
        ELSE IF dots # {}
        THEN (IF Cardinality(dots) = 1 /\ Len(s) - Min(dots) <= 2 /\ Min(dots) - 1 <= 3
              THEN Min(dots) ELSE 0)
        ELSE 0

\* the value of a digit/separator string by the stated rule: its digits, the
\* ones after the decimal separator being the fraction; None without digits
RuleValue(s) ==
    LET at       == DecimalAt(s)
        digits   == SelectSeq(s, LAMBDA c : c \in Digit)
        fraction == Cardinality({i \in 1..Len(s) : at > 0 /\ i > at /\ s[i] \in Digit})
    IN  IF at = -1 \/ digits = << >> THEN None
        ELSE Decimal(IntOf(digits), fraction)

C8_SignNeverDropped ==
    (ea_result # << >> /\ Positions(ea_amount_str, "-") # {} /\ ea_result[1] \in Int \X Nat)
        => ea_result[1][1] <= 0

(***************************************************************************)
(* parse_date with the configured formats on dates written as day, month   *)
(* and year with one separator.                                            *)
(***************************************************************************)
DayTokens == {"15", "31", "5"}

MonthTokens ==
    {"ene", "ene.", "Ene", "enero", "feb", "febrero", "sept", "dic", "01", "13"}
    \cup {MESES_ES[e][1] : e \in 1..Len(MESES_ES)}
    \cup {"ENERO", "Agosto", "DIC", "Marzo", "SEP"}

YearTokens == {"2025", "25"}

DateSeparators == {" ", "/", "-"}

DateStrings ==
    {Chars(d) \o <<sep>> \o Chars(m) \o <<sep>> \o Chars(y) :
        d \in DayTokens, sep \in DateSeparators, m \in MonthTokens, y \in YearTokens}

InitDate ==
    /\ pd_date_str \in DateStrings
    /\ pd_result = << >>
    /\ InitInstance /\ IdleScan /\ IdleTitular /\ IdleClean /\ IdleAmount /\ IdleMore

\* parse_date(date_str), without a list of formats
ParseDate ==
    /\ pd_result = << >>
    /\ pd_result' = <<parse_date(pd_date_str, << >>)>>
    /\ UNCHANGED <<pd_date_str, instance_vars, scan_vars, titular_vars, clean_vars, amount_vars, more_vars>>

NextDate == ParseDate

SpecDate == InitDate /\ [][NextDate]_vars

\* C6 (as stated): parse_date("15 ene. 2025"), called without a list of
\* formats, returns the date 2025-01-15.
C6_SpanishAbbreviatedDate ==
    (pd_date_str = Chars("15 ene. 2025") /\ pd_result # << >>)
        => (pd_result[1] # None /\ pd_result[1] = <<2025, 1, 15>>)

(***************************************************************************)
(* _parse_by_fixed_positions called on its own, on one line                *)
(***************************************************************************)
Widths == {95, 102, 103, LineWidth}

Tails == {"500,00", "500,00 1,25", "500,00 _", "1.234,56- 7,00", "7,00 1.234,56-", "12 ,5", "abc", ""}

Details == {"MERCADO PAGO", "#"}

\* lines that end before the amount column, and lines with little text
ShortLines ==
    {PadRight(Chars("15.01.25 MERCADO PAGO 500,00"), 40),
     PadRight(Blanks(fecha_start) \o Chars("15.01.25 123456 MERCADO PAGO 500,00"), min_amount_pos),
     Blanks(min_amount_pos - 2) \o Chars("X  5,00"),
     Blanks(min_amount_pos - 2) \o Chars("X  5,00 1,00"),
     Blanks(min_amount_pos) \o Chars("500,00"),
     Chars("5,00"),
     << >>}

ParserLines ==
    {LineOfWidth(w, f[1], f[2], d, t) :
        w \in Widths, f \in {<<"15.01.25", "123456">>, <<"", "">>}, d \in Details, t \in Tails}
    \cup ShortLines

InitParse ==
    /\ pf_line \in ParserLines
    /\ pf_result = << >>
    /\ IdleUnits /\ IdleRegistry /\ IdleBatch /\ IdlePasses /\ IdlePages

ParseLine ==
    /\ pf_result = << >>
    /\ pf_result' = <<_parse_by_fixed_positions(pf_line)>>
    /\ UNCHANGED <<pf_line, unit_vars, registry_vars, batch_vars, passes_vars, pages_vars>>

NextParse == ParseLine

SpecParse == InitParse /\ [][NextParse]_vars

\* C11 (as stated): the parser returns no record for every line shorter than
\* min_line_length = 103 characters.
C11_ShorterThanMinLineLengthIsEmpty ==
    (pf_result # << >> /\ Len(pf_line) < min_line_length) => pf_result[1] = << >>

\* C11 (amended): the parser returns no record for every line whose stripped
\* text has fewer than 10 characters and for every line of at most 80
\* characters, the column where the amount is looked for.
C11_ShortTextOrNoAmountColumnIsEmpty ==
    (/\ pf_result # << >>
     /\ \/ Len(strip(pf_line)) < min_stripped_length
        \/ Len(pf_line) <= min_amount_pos)
    => pf_result[1] = << >>

\* a line with a description and an amount, seven characters of text in all,
\* has been parsed and gave nothing
C11_Witness ==
    /\ pf_line = Blanks(min_amount_pos - 2) \o Chars("X  5,00")
    /\ pf_result = << << >> >>

\* the text from column 80 on is two amount tokens and nothing else, the
\* second one possibly the placeholder
TwoAmountsRE ==
    <<AtStart, Star(In(Space)), Open(1)>> \o monto_pattern
    \o <<Close(1), Plus(In(Space)), Open(2), Alt(<<monto_pattern, <<In({"_"})>> >>), Close(2),
         Star(In(Space)), AtEnd>>

AmountColumns(line) == Slice(line, min_amount_pos, Len(line))

TwoAmounts(line) == re_match(TwoAmountsRE, AmountColumns(line))

\* the value of an amount token in cents: its digits, two of them decimals
\* when it has a comma, negative when it ends with the minus sign
TokenCents(token) ==
    (IF token[Len(token)] = "-" THEN -1 ELSE 1)
    * IntOf(SelectSeq(token, LAMBDA ch : ch \in Digit))
    * (IF Contains(token, <<",">>) THEN 1 ELSE 100)

AmountsOf(movements) == {Cents(movements[i].importe) : i \in 1..Len(movements)}

\* the line has a description in the description column
Described(line) ==
    clean_description(strip(Slice(line, descripcion_start, min_amount_pos))) # << >>

FirstOfTwo(line, two) == TokenCents(Group(two, AmountColumns(line), 1))

\* C12: for every line whose text from column 80 on is two amount tokens
\* separated by blanks, the second one possibly '_', the parser takes the
\* double-amount match: the record it returns (it returns one whenever the
\* line has a description) has the value of the first token as its amount,
\* never the second token.
C12_FirstOfTwoAmounts ==
    (pf_result # << >> /\ TwoAmounts(pf_line).ok)
    => /\ AmountsOf(pf_result[1]) \subseteq {FirstOfTwo(pf_line, TwoAmounts(pf_line))}
       /\ Described(pf_line) => pf_result[1] # << >>

\* the line that ends with 500,00 and 1,25 has given a record of 500.00
C12_Witness ==
    /\ pf_line = LineOfWidth(LineWidth, "15.01.25", "123456", "MERCADO PAGO", "500,00 1,25")
    /\ pf_result # << >>
    /\ AmountsOf(pf_result[1]) = {50000}

(***************************************************************************)
(* Documents without pages                                                 *)
(***************************************************************************)
\* the document of which _extract_pages_from_pdf gives no page
SinPaginas == PdfOf(<< >>)

\* C13: a document that yields zero pages is no error: for it
\* _extract_movements_from_file and extract_movements return the empty list,
\* and a call of extract returns the empty list, whatever was extracted
\* before.
C13_ZeroPagesGiveNoRecords ==
    /\ _extract_movements_from_file(SinPaginas) = << >>
    /\ extract_movements(SinPaginas) = << >>
    /\ (pdf_path # << >> /\ PdfOf(pdf_path[1]).pages = << >>) => returned = << >>

\* extract has returned for the document without pages, on an instance that
\* holds the summary of an earlier document
C13_Witness ==
    /\ pdf_path = << << >> >>
    /\ returned = << >>
    /\ last_resumen_info # << >>

(***************************************************************************)
(* extractors.get_extractor                                                *)
(***************************************************************************)
\* the keys of EXTRACTORS, each with the class registered
EXTRACTORS == [name \in {Chars("patagonia")} |-> "PatagoniaExtractor"]

\* the keys of config.BANK_CONFIGS
BANK_CONFIGS == {Chars("Patagonia"), Chars("Galicia")}

ValueError == [raised |-> "ValueError"]

\* the lookup with the name as it was given
ClassOfNameAsGiven(bank_name) ==
    IF bank_name \in DOMAIN EXTRACTORS THEN <<EXTRACTORS[bank_name]>> ELSE << >>

\* EXTRACTORS.get(bank_name.lower()): << >> is None
extractor_class(bank_name) ==
    IF lower(bank_name) \in DOMAIN EXTRACTORS THEN <<EXTRACTORS[lower(bank_name)]>> ELSE << >>

\* extractor_class(): the object constructed is the created-th of the run
Instance(class, created) == [class |-> class, instance |-> created, last_resumen_info |-> << >>]

BankNames ==
    BANK_CONFIGS
    \cup {Chars("patagonia"), Chars("PATAGONIA"), Chars("pAtAgOnIa"), Chars("galicia"),
          Chars("santander"), Chars("patagonia "), Chars("Patagonia2"), << >>}

MaxCalls == 4

InitRegistry ==
    /\ IdleRegistry
    /\ IdleUnits /\ IdleParse /\ IdleBatch /\ IdlePasses /\ IdlePages

\* get_extractor(bank_name) returns extractor_class()
ReturnExtractor(bank_name) ==
    /\ Len(ge_results) < MaxCalls
    /\ extractor_class(bank_name) # << >>
    /\ ge_bank_name' = <<bank_name>>
    /\ ge_created' = ge_created + 1
    /\ ge_results' = Append(ge_results, Instance(extractor_class(bank_name)[1], ge_created + 1))
    /\ UNCHANGED <<unit_vars, parse_vars, batch_vars, passes_vars, pages_vars>>

\* get_extractor(bank_name) raises
RaiseValueError(bank_name) ==
    /\ Len(ge_results) < MaxCalls
    /\ extractor_class(bank_name) = << >>
    /\ ge_bank_name' = <<bank_name>>
    /\ ge_results' = Append(ge_results, ValueError)
    /\ UNCHANGED <<ge_created, unit_vars, parse_vars, batch_vars, passes_vars, pages_vars>>

NextRegistry ==
    \E bank_name \in BankNames : ReturnExtractor(bank_name) \/ RaiseValueError(bank_name)

SpecRegistry == InitRegistry /\ [][NextRegistry]_vars

Registered(bank_name) == lower(bank_name) \in DOMAIN EXTRACTORS

LastResult == ge_results[Len(ge_results)]

\* C14: get_extractor raises ValueError for every bank name whose lower-cased
\* form is no key of EXTRACTORS, 'Galicia' of BANK_CONFIGS among them; for a
\* registered name in any letter case it returns an instance of the class
\* registered, and no two calls return the same instance.
C14_UnknownBankRaisesKnownBankGetsNewInstance ==
    /\ ge_bank_name # << >> =>
          IF Registered(ge_bank_name[1])
          THEN LastResult # ValueError /\ LastResult.class = "PatagoniaExtractor"
          ELSE LastResult = ValueError
    /\ \A i, j \in 1..Len(ge_results) :
          (i # j /\ ge_results[i] # ValueError /\ ge_results[j] # ValueError)
          => ge_results[i].instance # ge_results[j].instance

\* 'Galicia' has raised after 'PATAGONIA' and 'patagonia' gave two instances
C14_Witness ==
    /\ ge_bank_name = <<Chars("Galicia")>>
    /\ Len(ge_results) = 3
    /\ ge_results[1] # ValueError /\ ge_results[2] # ValueError
    /\ ge_results[1].instance # ge_results[2].instance
    /\ ge_results[3] = ValueError

(***************************************************************************)
(* tests/patagonia.test_patagonia_extractor: the loop over pdf_files       *)
(***************************************************************************)
\* what can go wrong outside the extractor while a file is processed: the
\* text of a page cannot be read (extract raises), the result file cannot be
\* written (save_movements_to_file raises)
Faults == {"none", "extract", "save"}

\* the files of the folder: a document and the fault that meets it
FilePool ==
    {[doc |-> Example1475, fault |-> "none"],
     [doc |-> Example1475, fault |-> "extract"],
     [doc |-> Example1475, fault |-> "save"],
     [doc |-> Example1600, fault |-> "none"],
     [doc |-> <<1>>, fault |-> "none"],
     [doc |-> <<5>>, fault |-> "none"]}

MaxFiles == 3

\* extractor.extract(pdf_file), when it returns
RunOf(file) == Runs[DocNumber(file.doc)]

\* f"${resumen_info.get('saldo_actual', 0):>12,.2f}" raises TypeError on None
FormatRaises(resumen_info) == resumen_info.saldo_actual = None

\* save_movements_to_file raises: the file cannot be written, or the summary
\* has no stated balance to format
SaveFails(file, run) == file.fault = "save" \/ FormatRaises(run.resumen_info[1])

\* the entry appended to validation_results
ValidationEntry(archivo, resumen_info) ==
    [archivo |-> archivo,
     saldo_calculado |-> resumen_info.saldo_calculado,
     saldo_oficial |-> resumen_info.saldo_actual,
     validacion_ok |-> resumen_info.validacion_ok,
     diferencia |-> resumen_info.diferencia_validacion]

InitBatch ==
    /\ tb_files \in SeqsUpTo(FilePool, MaxFiles)
    /\ tb_i = 1
    /\ tb_processed = << >>
    /\ tb_results = << >>
    /\ IdleUnits /\ IdleParse /\ IdleRegistry /\ IdlePasses /\ IdlePages

\* the loop goes on to the next file
NextFile ==
    /\ tb_i' = tb_i + 1
    /\ tb_processed' = Append(tb_processed, tb_i)
    /\ UNCHANGED <<tb_files, scan_vars, titular_vars, clean_vars, amount_vars, date_vars,
                   parse_vars, registry_vars, passes_vars, pages_vars>>

\* extract returns for the file at tb_i
ExtractReturns(file) ==
    /\ pdf_path' = <<file.doc>>
    /\ Returned(RunOf(file))

\* a loop that ends at the first exception
ExtractAborts ==
    /\ tb_i <= Len(tb_files)
    /\ tb_files[tb_i].fault = "extract"
    /\ tb_i' = Len(tb_files) + 1
    /\ tb_processed' = Append(tb_processed, tb_i)
    /\ UNCHANGED <<tb_files, tb_results, unit_vars, parse_vars, registry_vars, passes_vars, pages_vars>>

\* extract raises; the except clause prints the error
ExtractRaises ==
    /\ tb_i <= Len(tb_files)
    /\ tb_files[tb_i].fault = "extract"
    /\ NextFile
    /\ UNCHANGED <<instance_vars, tb_results>>

\* if not movements: continue
NoMovements ==
    /\ tb_i <= Len(tb_files)
    /\ tb_files[tb_i].fault # "extract"
    /\ RunOf(tb_files[tb_i]).movements = << >>
    /\ ExtractReturns(tb_files[tb_i])
    /\ NextFile
    /\ UNCHANGED tb_results

\* save_movements_to_file raises; the except clause prints the error
SaveRaises ==
    /\ tb_i <= Len(tb_files)
    /\ tb_files[tb_i].fault # "extract"
    /\ RunOf(tb_files[tb_i]).movements # << >>
    /\ SaveFails(tb_files[tb_i], RunOf(tb_files[tb_i]))
    /\ ExtractReturns(tb_files[tb_i])
    /\ NextFile
    /\ UNCHANGED tb_results

\* the file is saved and its entry appended
AppendValidation ==
    /\ tb_i <= Len(tb_files)
    /\ tb_files[tb_i].fault # "extract"
    /\ RunOf(tb_files[tb_i]).movements # << >>
    /\ ~SaveFails(tb_files[tb_i], RunOf(tb_files[tb_i]))
    /\ ExtractReturns(tb_files[tb_i])
    /\ NextFile
    /\ tb_results' = Append(tb_results,
                            ValidationEntry(tb_i, RunOf(tb_files[tb_i]).resumen_info[1]))

NextBatch == ExtractRaises \/ NoMovements \/ SaveRaises \/ AppendValidation

\* the loop is sequential code: it goes on while a file is left
SpecBatch == InitBatch /\ [][NextBatch]_vars /\ WF_vars(NextBatch)

\* processing the file raises, in extract or in save_movements_to_file
Failing(file) ==
    \/ file.fault = "extract"
    \/ RunOf(file).movements # << >> /\ SaveFails(file, RunOf(file))

BatchInOrder ==
    /\ Len(tb_processed) = tb_i - 1
    /\ \A k \in 1..Len(tb_processed) : tb_processed[k] = k
    /\ \A k \in 1..Len(tb_results) :
          /\ tb_results[k].archivo \in 1..(tb_i - 1)
          /\ ~Failing(tb_files[tb_results[k].archivo])

BatchDone == tb_i = Len(tb_files) + 1

\* C15: in the loop over the sorted list of files an exception raised while
\* extracting or saving one file does not end the batch: the files are
\* processed once each, in the order of the list, up to the last one, and no
\* failing file has an entry in validation_results.
C15_BatchSurvivesFailures == [](BatchInOrder) /\ <>(BatchDone)

\* the batch is over: the first file failed in extract, the second was saved,
\* the third failed in save
C15_Witness ==
    /\ Len(tb_files) = 3
    /\ tb_files[1].fault = "extract"
    /\ tb_files[2] = [doc |-> Example1475, fault |-> "none"]
    /\ tb_files[3].fault = "save"
    /\ BatchDone
    /\ tb_processed = <<1, 2, 3>>
    /\ Len(tb_results) = 1 /\ tb_results[1].archivo = 2

(***************************************************************************)
(* The section scanner as a machine of two states                          *)
(***************************************************************************)
\* the k-th line of the text being scanned
LineAt(k) == LinePool[sc_lines[k]]

EndMarkers ==
    {Chars("DEBITAREMOS DE SU"), Chars("Plan V:"), Chars("CFTEA"),
     Chars("Condiciones vigentes"), Chars("Estimado Cliente")}

HasEndMarker(line) == \E marker \in EndMarkers : Contains(line, marker)

HasHeaderTokens(line) ==
    \A token \in {Chars("FECHA"), Chars("COMPROBANTE"), Chars("DETALLE")} : Contains(line, token)

\* line p comes after a line with the three header tokens and no line with an
\* end marker lies between the two
InsideAt(p) ==
    \E h \in 1..(p - 1) :
        /\ HasHeaderTokens(LineAt(h))
        /\ \A e \in (h + 1)..(p - 1) : ~HasEndMarker(LineAt(e))

\* the lines before p that are in the section and have no end marker
SectionLines(p) == {k \in 1..(p - 1) : InsideAt(k) /\ ~HasEndMarker(LineAt(k))}

\* the records that line number l of LinePool gives when it is in the section
RecordsInside(l) == Scanned[2 * l].sc.movements

RECURSIVE RecordsUpTo(_)
RecordsUpTo(p) ==
    IF p = 0 THEN << >>
    ELSE RecordsUpTo(p - 1)
         \o (IF p \in SectionLines(p + 1) THEN RecordsInside(sc_lines[p]) ELSE << >>)

\* C16: the scanner starts outside the section; it is inside at a line exactly
\* when a line with FECHA, COMPROBANTE and DETALLE came before and no line
\* with an end marker came since, so a header line enters, an end-marker line
\* leaves, a blank line changes nothing and a later header line enters
\* again; and the records are those of the lines strictly between a header
\* line and the next end-marker line, none from the line that enters and
\* none from the line that leaves.
C16_TwoStateSectionScanner ==
    /\ sc_pos = 1 => ~sc_state.in_movement_section
    /\ sc_state.in_movement_section = InsideAt(sc_pos)
    /\ sc_state.movements = RecordsUpTo(sc_pos - 1)

\* the text with a section, an end marker, lines outside and a second section
\* has been read: one record before the end marker, none from the movement
\* line after it, one record and one cardholder line from the second section
C16_Witness ==
    /\ sc_lines = <<4, 1, 4, 6, 4, 1, 3, 4, 5>>
    /\ sc_pos = 10
    /\ sc_state.in_movement_section
    /\ Len(sc_state.movements) = 3

(***************************************************************************)
(* The gate before the parser                                              *)
(***************************************************************************)
LastOf(t) == t[Len(t)]

\* t without a placeholder at its end
WithoutPlaceholder(t) ==
    IF t # << >> /\ LastOf(t) = "_" THEN rstrip(SubSeq(t, 1, Len(t) - 1)) ELSE t

\* t ends with the last digit of an amount, or with its minus sign
EndsInAmount(t) ==
    /\ t # << >>
    /\ \/ LastOf(t) \in Digit
       \/ Len(t) >= 2 /\ LastOf(t) = "-" /\ t[Len(t) - 1] \in Digit

\* the line ends with an amount, the only one or the second of two, or with
\* an amount and the placeholder
EndsWithAmounts(line) == EndsInAmount(WithoutPlaceholder(rstrip(line)))

\* for each line of LinePool: whether it passes the two tests, what the
\* parser gives for it, and whether it is a line that the gate decides (not
\* blank, no end marker, no cardholder line)
Gate ==
    [l \in 1..Len(LinePool) |->
        /\ Len(LinePool[l]) \in min_line_length..max_line_length
        /\ EndsWithAmounts(LinePool[l])]

ParserGives == [l \in 1..Len(LinePool) |-> _parse_by_fixed_positions(LinePool[l])]

Candidate ==
    [l \in 1..Len(LinePool) |->
        /\ strip(LinePool[l]) # << >>
        /\ ~HasEndMarker(LinePool[l])
        /\ ~Truthy(_extract_titular_info(LinePool[l]))]

\* the iteration for line number l, a line that the gate decides
GateDecides(l) ==
    /\ (Current.kind = "movement") <=> Gate[l]
    /\ sc_state'.movements = sc_state.movements \o (IF Gate[l] THEN ParserGives[l] ELSE << >>)
    /\ sc_state'.in_movement_section
    /\ sc_pos' = sc_pos + 1

\* C18: in the section, a line that is not blank, has no end marker and is
\* no cardholder line goes to the parser only if its length is within
\* 103..124 and it ends with one or two amounts ('_' allowed for the second);
\* any other such line gives no record and the scan goes on with the next
\* line.
C18_OnlyGatedLinesReachTheParser ==
    [][(/\ sc_pos <= Len(sc_lines)
        /\ sc_state.in_movement_section
        /\ Candidate[sc_lines[sc_pos]])
       => GateDecides(sc_lines[sc_pos])]_vars

\* after the header, the line of 102 characters with an amount gave nothing
\* and the line of 103 characters that came next gave its record
C18_Witness ==
    /\ sc_lines = <<1, 13, 14>>
    /\ sc_pos = 4
    /\ Len(sc_state.movements) = 1
    /\ sc_state.movements[1].descripcion = Chars("MINIMA")

(***************************************************************************)
(* The month table                                                         *)
(***************************************************************************)
\* the date strings '15 <month> 2025' with the Spanish name of entry e of
\* MESES_ES in some letter case
DatesOfEntry(e) ==
    {Chars("15 ") \o Chars(m) \o Chars(" 2025") :
        m \in {t \in MonthTokens : lower(Chars(t)) = Chars(MESES_ES[e][1])}}

\* the same string with the English name of the entry
EnglishDate(e) == Chars("15 ") \o Chars(MESES_ES[e][2]) \o Chars(" 2025")

\* the entries come in pairs, abbreviation and full name, in calendar order
MonthOfEntry(e) == (e + 1) \div 2

\* C17 (as stated): for every entry of MESES_ES, abbreviation or full name,
\* in any letter case, normalize_spanish_month gives the date string with the
\* English name listed, and parse_date gives the date of that month.
C17_EveryMonthBothForms ==
    \A e \in 1..Len(MESES_ES) :
        (pd_result # << >> /\ pd_date_str \in DatesOfEntry(e))
        => /\ normalize_spanish_month(pd_date_str) = EnglishDate(e)
           /\ pd_result[1] # None
           /\ pd_result[1] = <<2025, MonthOfEntry(e), 15>>

(***************************************************************************)
(* PatagoniaExtractor.extract, lines 59-112: the passes over the list      *)
(***************************************************************************)
\* a record as the parser and extract_movements give it
Record(descripcion, importe) ==
    Stamped([fecha |-> None, comprobante |-> << >>, descripcion |-> Chars(descripcion),
             importe |-> importe, cuota |-> << >>, moneda |-> Chars("ARS")])

PassRecords ==
    {Record("SALDO ANTERIOR", <<1000, 0>>),
     Record("Su pago en pesos", <<-300, 0>>),
     Record("IVA $ 21", <<25, 0>>),
     Record("SALDO ANTERIOR IVA $ 21", <<7, 0>>),
     Record("MERCADO PAGO", <<500, 0>>),
     Record("BONIFICACION", <<-50, 0>>),
     Record("SALDO ACTUAL", <<1475, 0>>),
     Record("SALDO ACTUAL", <<1600, 0>>),
     Record("PAGO MINIMO", <<100, 0>>),
     Record("SALDO ACTUAL PAGO MINIMO", <<9, 0>>)}

MaxRecords == 3

InitPasses ==
    /\ ps_input \in SeqsUpTo(PassRecords, MaxRecords) \ {<< >>}
    /\ ps_stage = 0
    /\ ps_movements = ps_input
    /\ ps_info = << >>
    /\ IdleUnits /\ IdleParse /\ IdleRegistry /\ IdleBatch /\ IdlePages

\* the pass is made: the list it leaves and the values it adds to the summary
Passed(movements, info) ==
    /\ ps_stage' = ps_stage + 1
    /\ ps_movements' = movements
    /\ ps_info' = ps_info \o info
    /\ UNCHANGED <<ps_input, unit_vars, parse_vars, registry_vars, batch_vars, pages_vars>>

\* lines 59-60
PassSaldoAnterior ==
    /\ ps_stage = 0
    /\ Passed(_extract_saldo_anterior(ps_movements).movements,
              <<_extract_saldo_anterior(ps_movements).total>>)

\* lines 67-68
PassCargosBancarios ==
    /\ ps_stage = 1
    /\ Passed(_extract_cargos_bancarios(ps_movements).movements,
              <<_extract_cargos_bancarios(ps_movements).total>>)

\* lines 75-88
PassSaldos ==
    /\ ps_stage = 2
    /\ Passed(Delete(ps_movements, saldo_movements(ps_movements)),
              <<LastImporte(ps_movements, IsSaldoActual),
                LastImporte(ps_movements, IsPagoMinimo)>>)

\* lines 93-107
PassTotales ==
    /\ ps_stage = 3
    /\ Passed(_assign_titular_to_movements_advanced(ps_movements),
              <<total_consumos(_assign_titular_to_movements_advanced(ps_movements)),
                bonificaciones(_assign_titular_to_movements_advanced(ps_movements))>>)

NextPasses == PassSaldoAnterior \/ PassCargosBancarios \/ PassSaldos \/ PassTotales

SpecPasses == InitPasses /\ [][NextPasses]_vars

\* the description, in capitals, has one of the texts (the descriptions are
\* normalised: one blank between words)
HasOneOf(mov, texts) == \E t \in texts : Contains(upper(mov.descripcion), Chars(t))

IsSaldoAnterior(mov) == HasOneOf(mov, {"SALDO ANTERIOR", "SU PAGO EN PESOS"})

IsCargo(mov) ==
    HasOneOf(mov, {"COMIS. PROD. PAT", "IVA $ 21", "INTERESES FINANCIACION", "IMP DE SELLOS"})

RECURSIVE SumCents(_)
SumCents(movements) ==
    IF movements = << >> THEN 0 ELSE Cents(Head(movements).importe) + SumCents(Tail(movements))

SameRecords(movements, expected) ==
    /\ Len(movements) = Len(expected)
    /\ \A i \in 1..Len(movements) :
          /\ movements[i].descripcion = expected[i].descripcion
          /\ movements[i].importe = expected[i].importe

AfterSaldoAnterior == SelectSeq(ps_input, LAMBDA mov : ~IsSaldoAnterior(mov))

AfterCargos == SelectSeq(AfterSaldoAnterior, LAMBDA mov : ~IsCargo(mov))

\* C19: the prior-balance pass sums the amounts of exactly the records whose
\* description in capitals matches a balance pattern and removes exactly
\* those; the bank-charges pass does the same with the charge patterns on the
\* list that is left; the other records stay in their order, and a record
\* that matches a pattern of both passes is counted in the prior balance
\* only.
C19_PassesSumAndRemoveTheirRecords ==
    /\ ps_stage >= 1 =>
          Cents(ps_info[1]) = SumCents(SelectSeq(ps_input, IsSaldoAnterior))
    /\ ps_stage = 1 => SameRecords(ps_movements, AfterSaldoAnterior)
    /\ ps_stage >= 2 =>
          Cents(ps_info[2]) = SumCents(SelectSeq(AfterSaldoAnterior, IsCargo))
    /\ ps_stage = 2 => SameRecords(ps_movements, AfterCargos)

\* the two passes are made over a list with a record of both kinds between a
\* charge and a purchase: 7.00 is in the prior balance, the charges are 25.00
C19_Witness ==
    /\ ps_stage = 2
    /\ Len(ps_input) = 3
    /\ ps_input[1].descripcion = Chars("IVA $ 21")
    /\ ps_input[2].descripcion = Chars("SALDO ANTERIOR IVA $ 21")
    /\ ps_input[3].descripcion = Chars("MERCADO PAGO")
    /\ ps_info = << <<7, 0>>, <<25, 0>> >>
    /\ Len(ps_movements) = 1

HasSaldoActual(mov) == Contains(mov.descripcion, Chars("SALDO ACTUAL"))

HasPagoMinimo(mov) == Contains(mov.descripcion, Chars("PAGO MINIMO"))

\* the amount of the last of the records, None when there is none
LastAmount(movements) ==
    IF movements = << >> THEN None ELSE movements[Len(movements)].importe

AfterSaldos == SelectSeq(AfterCargos, LAMBDA mov : ~HasSaldoActual(mov) /\ ~HasPagoMinimo(mov))

Bases ==
    [c \in 0..DocNumber([i \in 1..MaxPages |-> Len(PagePool)]) |->
        IF DocAt(c) \in Documents THEN extract_movements(PdfOf(DocAt(c))) ELSE << >>]

\* the records extracted from the document of the most recent call
ExtractedRecords == Bases[DocNumber(pdf_path[1])]

\* a record that the third pass removes as stated balance or minimum payment:
\* the first two passes have left it in the list
IsCaptured(mov) ==
    /\ ~IsSaldoAnterior(mov) /\ ~IsCargo(mov)
    /\ HasSaldoActual(mov) \/ HasPagoMinimo(mov)

\* the field of the summary that the amount of an extracted record is added to
CategoryOf(mov) ==
    IF IsSaldoAnterior(mov) THEN "saldo_anterior"
    ELSE IF IsCargo(mov) THEN "cargos_bancarios"
    ELSE IF IsCaptured(mov) \/ IsPseudo(mov) THEN "none"
    ELSE IF Cents(mov.importe) > 0 THEN "total_consumos"
    ELSE IF Cents(mov.importe) < 0 THEN "bonificaciones"
    ELSE "none"

\* C22: in the summary a call builds from a non-empty list of extracted
\* records, each of saldo_anterior, cargos_bancarios, total_consumos and
\* bonificaciones is the sum of the amounts of the records of one of four
\* disjoint classes; the records in no class are those removed as stated
\* balance or minimum payment and records of amount 0, the pseudo-records
\* among them; so saldo_calculado is the sum of the amounts of all extracted
\* records other than the captured balance and minimum-payment records.
C22_AmountsConserved ==
    (pdf_path # << >> /\ resumen_built) =>
        /\ ExtractedRecords # << >>
        /\ \A field \in {"saldo_anterior", "cargos_bancarios", "total_consumos", "bonificaciones"} :
               Cents(last_resumen_info[1][field])
                   = SumCents(SelectSeq(ExtractedRecords, LAMBDA mov : CategoryOf(mov) = field))
        /\ \A i \in 1..Len(ExtractedRecords) :
               CategoryOf(ExtractedRecords[i]) = "none" =>
                   \/ IsCaptured(ExtractedRecords[i])
                   \/ Cents(ExtractedRecords[i].importe) = 0
        /\ \A i \in 1..Len(ExtractedRecords) :
               IsPseudo(ExtractedRecords[i]) => Cents(ExtractedRecords[i].importe) = 0
        /\ Cents(last_resumen_info[1].saldo_calculado)
               = SumCents(SelectSeq(ExtractedRecords, LAMBDA mov : ~IsCaptured(mov)))

\* C22 witness: a call on the two pages with a prior balance, a purchase, a
\* credit, a charge, one more purchase, a pseudo-record and a stated balance:
\* 1000.00 + 500.00 - 50.00 + 25.00 + 1.00 = 1476.00, without the 1475.00 of
\* the stated balance
C22_Witness ==
    /\ pdf_path = << <<1, 4>> >>
    /\ resumen_built
    /\ Len(ExtractedRecords) = 7
    /\ \E i \in 1..Len(ExtractedRecords) : IsPseudo(ExtractedRecords[i])
    /\ \E i \in 1..Len(ExtractedRecords) :
           IsCaptured(ExtractedRecords[i]) /\ Cents(ExtractedRecords[i].importe) = 147500
    /\ Cents(last_resumen_info[1].saldo_calculado) = 147600

(***************************************************************************)
(* _extract_movements_from_file on documents of at most MaxTextPages pages *)
(* of TextPool: the text of the pages is built, then split and scanned.    *)
(***************************************************************************)
Compra500 == MovementLine("15.01.25", "123456*", "MERCADO PAGO", "500,00")

Compra1 == MovementLine("17.01.25", "222222", "SUPERMERCADO", "1,00")

\* the text extract_text gives for a page: pages that end in a record line,
\* a page whose text ends with a line break, a page without text, and a page
\* that ends in the middle of a cardholder line, with the page that follows it
TextPool ==
    <<JoinLines(<<Header, Compra500>>),
      JoinLines(<<Compra1, Compra500>>),
      JoinLines(<<Header, Compra500, << >> >>),
      << >>,
      JoinLines(<<Header, Compra1, Chars("Tarjeta 1234 Total Consumos de ")>>),
      JoinLines(<<Chars("ANA PEREZ     451,00"), Compra1>>)>>

MaxTextPages == 3

InitPages ==
    /\ pg_pages \in SeqsUpTo(1..Len(TextPool), MaxTextPages)
    /\ pg_stage = 0
    /\ pg_text = << >>
    /\ pg_lines = << >>
    /\ pg_result = << >>
    /\ IdleUnits /\ IdleParse /\ IdleRegistry /\ IdleBatch /\ IdlePasses

PagesOf(numbers) == [i \in 1..Len(numbers) |-> TextPool[numbers[i]]]

\* lines 128-131: no pages
NoPages ==
    /\ pg_stage = 0
    /\ pg_pages = << >>
    /\ pg_stage' = 2
    /\ pg_result' = << << >> >>
    /\ UNCHANGED <<pg_pages, pg_text, pg_lines, unit_vars, parse_vars, registry_vars, batch_vars, passes_vars>>

\* line 133
TextFromPages ==
    /\ pg_stage = 0
    /\ pg_pages # << >>
    /\ pg_stage' = 1
    /\ pg_text' = <<_extract_text_from_pages(PagesOf(pg_pages))>>
    /\ UNCHANGED <<pg_pages, pg_lines, pg_result, unit_vars, parse_vars, registry_vars, batch_vars, passes_vars>>

\* lines 137-141
MovementsFromText ==
    /\ pg_stage = 1
    /\ pg_stage' = 2
    /\ pg_lines' = split(pg_text[1], "\n")
    /\ pg_result' = <<_extract_movements_from_text(pg_text[1])>>
    /\ UNCHANGED <<pg_pages, pg_text, unit_vars, parse_vars, registry_vars, batch_vars, passes_vars>>

NextPages == NoPages \/ TextFromPages \/ MovementsFromText

SpecPages == InitPages /\ [][NextPages]_vars

\* the lines of the pages read one after the other: the last line of what
\* came before and the first line of a page are one line
RECURSIVE MergedLines(_)
MergedLines(pages) ==
    IF pages = << >> THEN << << >> >>
    ELSE LET before == MergedLines(SubSeq(pages, 1, Len(pages) - 1))
             lines == split(pages[Len(pages)], "\n")
         IN  SubSeq(before, 1, Len(before) - 1)
             \o <<before[Len(before)] \o lines[1]>>
             \o Tail(lines)

\* the number of lines of the pages that have text, each page on its own
RECURSIVE LinesOfPages(_)
LinesOfPages(pages) ==
    IF pages = << >> THEN 0
    ELSE LinesOfPages(Tail(pages))
         + (IF Truthy(Head(pages)) THEN Len(split(Head(pages), "\n")) ELSE 0)

\* the movements the loop over the lines gives
MovementsOfLines(lines) == ScanLines(ScanStart, lines, 1, Len(lines)).movements

\* C23: the text scanned is the text of the pages one after the other with
\* nothing between them, so the lines scanned are the lines of the pages
\* with the last line of each page that has text and the first line of the
\* next such page as one line: one line fewer for each page boundary than
\* the pages have (a page that ends with a line break gives an empty last
\* line, and the first line of the next page is scanned as it is), and the
\* movements returned are those of the merged lines.
C23_PagesJoinedWithoutSeparator ==
    pg_stage = 2 /\ pg_pages # << >> =>
        LET pages == PagesOf(pg_pages)
            with_text == SelectSeq(pages, Truthy)
        IN  /\ pg_lines = MergedLines(pages)
            /\ with_text # << >> =>
                   Len(pg_lines) = LinesOfPages(pages) - (Len(with_text) - 1)
            /\ \A i \in 1..(Len(with_text) - 1) :
                   LET last == split(with_text[i], "\n")
                       first == split(with_text[i + 1], "\n")
                   IN  \E k \in 1..Len(pg_lines) :
                          \E j \in 0..Len(pg_lines[k]) :
                              /\ SubSeq(pg_lines[k], j + 1, Len(pg_lines[k])) = first[1]
                              /\ Len(last[Len(last)]) <= j
                              /\ SubSeq(pg_lines[k], j - Len(last[Len(last)]) + 1, j)
                                     = last[Len(last)]
            /\ pg_result = <<MovementsOfLines(MergedLines(pages))>>

\* C23 witness: a page that ends with a record line and a page that begins
\* with one: four lines on the pages, three lines scanned; the two record
\* lines at the page boundary are one line of more than max_line_length
\* characters that gives no record, and only the last record is returned
C23_Witness ==
    /\ pg_pages = <<1, 2>>
    /\ pg_stage = 2
    /\ Len(pg_lines) = 3
    /\ pg_lines[2] = Compra500 \o Compra1
    /\ Len(pg_lines[2]) > max_line_length
    /\ Len(pg_result[1]) = 1
    /\ pg_result[1][1].descripcion = Chars("MERCADO PAGO")

====
